---- MODULE Spec2Model ----
(***************************************************************************)
(* Zeplin MCP server: the design-tree normalisation and targeted           *)
(* extraction pipeline.                                                    *)
(*                                                                         *)
(*   preProcess / preProcessDesignTokens / removeMetadata                  *)
(*                                   utils/preprocessing.ts                *)
(*   findTargetLayer / pruneLayersForTargetLayer                           *)
(*                                   utils/api-utils.ts                    *)
(*   AssetRegistry                   utils/asset-registry.ts               *)
(*   getScreenData, processScreenVersionsAndAnnotations                    *)
(*                                   index.ts, clients/zeplinApi.ts        *)
(*                                                                         *)
(* The specifications share the variables below:                           *)
(*   SpecNorm   the pure normaliser applied to bounded document nodes      *)
(*   SpecPrune  the locator and the pruner applied to bounded forests      *)
(*   SpecFrame  the same functions called on arguments in the object heap  *)
(*   Spec       top-level extractions against the asset registry           *)
(*   SpecRace   extractions interleaved at their awaits                    *)
(***************************************************************************)
EXTENDS Integers, Sequences, FiniteSets, TLC

(***************************************************************************)
(* Document nodes (JSON values).  A number carries the text of its         *)
(* literal, so that 1, 0.5 and the string "1" are three different values,  *)
(* as they are for JavaScript's ===.  An object is the ordered sequence of *)
(* its entries <<key, value>> (Object.entries order), keys unique.         *)
(***************************************************************************)
Num(s) == [k |-> "num", v |-> s]
Str(s) == [k |-> "str", v |-> s]
Null == [k |-> "null", v |-> "null"]
Arr(items) == [k |-> "arr", v |-> items]
Obj(entries) == [k |-> "obj", v |-> entries]
\* the object with one entry
Field(key, value) == Obj(<< <<key, value>> >>)

\* Array.isArray(x)
IsArray(x) == x.k = "arr"
\* x !== null && typeof x === "object" && !Array.isArray(x)
IsObject(x) == x.k = "obj"
\* Array.isArray(x) && x.length === 0
IsEmptyArray(x) == IsArray(x) /\ Len(x.v) = 0
NotEmptyArray(x) == ~IsEmptyArray(x)

\* the keys of an object, as a set
KeysOf(o) == {o.v[i][1] : i \in 1..Len(o.v)}
\* "key" in o, for an object o
HasKey(o, key) == IsObject(o) /\ key \in KeysOf(o)
\* o[key], for a key the object has
Get(o, key) == o.v[CHOOSE i \in 1..Len(o.v) : o.v[i][1] = key][2]

(***************************************************************************)
(* utils/preprocessing.ts                                                  *)
(***************************************************************************)
\* mutant: `id` left out of the skipped properties
propsToSkipWithoutId == {"created", "creator", "thumbnails"}

propsToSkip == {"created", "creator", "thumbnails", "id"}

defaultValues ==
    [key \in {"opacity", "blend_mode", "rotation"} |->
        CASE key = "opacity" -> Num("1")
          [] key = "blend_mode" -> Str("normal")
          [] key = "rotation" -> Num("0")]

\* mutant: every item that has a density is kept, whatever the density
KeepContentItemAnyDensity(item) ==
    IF HasKey(item, "density") THEN TRUE
    ELSE IF IsEmptyArray(item) THEN FALSE
    ELSE TRUE

\* The filter over the original items of a `contents` array: an object
\* with a density is kept only at density 1, an empty array is dropped.
KeepContentItem(item) ==
    IF HasKey(item, "density") THEN Get(item, "density") = Num("1")
    ELSE IF IsEmptyArray(item) THEN FALSE
    ELSE TRUE

RECURSIVE preProcess(_)
RECURSIVE preProcessEntries(_)

\* mutant: the empty arrays are filtered out before the items are
\* normalised instead of after
preProcessItemsFilterFirst(items) ==
    LET kept == SelectSeq(items, NotEmptyArray)
    IN  [i \in 1..Len(kept) |-> preProcess(kept[i])]

\* data.map(item => preProcess(item)).filter(item => not an empty array)
preProcessItems(items) ==
    SelectSeq([i \in 1..Len(items) |-> preProcess(items[i])], NotEmptyArray)

\* mutant: a field that has a default is dropped whatever its value
preProcessEntryUnconditional(key, value) ==
    IF key \in propsToSkip THEN <<>>
    ELSE IF key \in DOMAIN defaultValues THEN <<>>
    ELSE LET processedValue ==
                 IF key = "contents" /\ IsArray(value)
                 THEN Arr(preProcessItems(SelectSeq(value.v, KeepContentItem)))
                 ELSE preProcess(value)
         IN  IF IsEmptyArray(processedValue) THEN <<>>
             ELSE << <<key, processedValue>> >>

\* mutant: a value that normalises to an empty object is left out as an
\* empty array is
preProcessEntryDroppingEmptyRecords(key, value) ==
    IF key \in propsToSkip THEN <<>>
    ELSE IF key \in DOMAIN defaultValues /\ defaultValues[key] = value THEN <<>>
    ELSE LET processedValue ==
                 IF key = "contents" /\ IsArray(value)
                 THEN Arr(preProcessItems(SelectSeq(value.v, KeepContentItem)))
                 ELSE preProcess(value)
         IN  IF IsEmptyArray(processedValue) \/ processedValue = Obj(<<>>) THEN <<>>
             ELSE << <<key, processedValue>> >>

\* One turn of the loop over Object.entries: the entries the turn adds to
\* result (none or one).
preProcessEntry(key, value) ==
    IF key \in propsToSkip THEN <<>>
    ELSE IF key \in DOMAIN defaultValues /\ defaultValues[key] = value THEN <<>>
    ELSE LET processedValue ==
                 IF key = "contents" /\ IsArray(value)
                 THEN Arr(preProcessItems(SelectSeq(value.v, KeepContentItem)))
                 ELSE preProcess(value)
         IN  IF IsEmptyArray(processedValue) THEN <<>>
             ELSE << <<key, processedValue>> >>

preProcessEntries(entries) ==
    IF entries = <<>> THEN <<>>
    ELSE preProcessEntry(Head(entries)[1], Head(entries)[2])
             \o preProcessEntries(Tail(entries))

preProcess(data) ==
    IF IsArray(data) THEN Arr(preProcessItems(data.v))
    ELSE IF IsObject(data) THEN Obj(preProcessEntries(data.v))
    ELSE data

RECURSIVE removeMetadata(_)
RECURSIVE removeMetadataEntries(_)

removeMetadataEntries(entries) ==
    IF entries = <<>> THEN <<>>
    ELSE (IF Head(entries)[1] = "metadata" THEN <<>>
          ELSE << <<Head(entries)[1], removeMetadata(Head(entries)[2])>> >>)
             \o removeMetadataEntries(Tail(entries))

\* mutant: arrays are returned as they are, not searched for metadata
removeMetadataSkippingArrays(obj) ==
    IF IsObject(obj) THEN Obj(removeMetadataEntries(obj.v))
    ELSE obj

\* mutant: a metadata field is emptied, not left out
RECURSIVE removeMetadataEmptying(_)
removeMetadataEmptying(obj) ==
    IF IsArray(obj)
    THEN Arr([i \in 1..Len(obj.v) |-> removeMetadataEmptying(obj.v[i])])
    ELSE IF IsObject(obj)
    THEN Obj([i \in 1..Len(obj.v) |->
                 IF obj.v[i][1] = "metadata" THEN <<"metadata", Arr(<<>>)>>
                 ELSE <<obj.v[i][1], removeMetadataEmptying(obj.v[i][2])>>])
    ELSE obj

removeMetadata(obj) ==
    IF IsArray(obj) THEN Arr([i \in 1..Len(obj.v) |-> removeMetadata(obj.v[i])])
    ELSE IF IsObject(obj) THEN Obj(removeMetadataEntries(obj.v))
    ELSE obj

preProcessDesignTokens(designTokens) == removeMetadata(preProcess(designTokens))

(***************************************************************************)
(* utils/api-utils.ts: the layer locator and the pruner.  A layers         *)
(* argument is a document node; null is Null.                              *)
(***************************************************************************)
\* layer.componentName === targetLayerName || layer.name === targetLayerName
MatchesTarget(layer, targetLayerName) ==
    \/ HasKey(layer, "componentName")
          /\ Get(layer, "componentName") = Str(targetLayerName)
    \/ HasKey(layer, "name") /\ Get(layer, "name") = Str(targetLayerName)

\* layer.layers && Array.isArray(layer.layers)
HasLayers(layer) == HasKey(layer, "layers") /\ IsArray(Get(layer, "layers"))

NotFound == [found |-> FALSE, layer |-> Null, parentLayer |-> Null, path |-> <<>>]

RECURSIVE findTargetLayer(_, _, _, _)
RECURSIVE findFrom(_, _, _, _, _)

\* mutant: the layers of a sequence are all tested before any of their
\* descendants
findFromSiblingsFirst(items, i, targetLayerName, parentLayer, path) ==
    LET direct == {j \in 1..Len(items) : MatchesTarget(items[j], targetLayerName)}
        deep == {j \in 1..Len(items) :
                    /\ HasLayers(items[j])
                    /\ findTargetLayer(Get(items[j], "layers"), targetLayerName,
                                       items[j], Append(path, items[j])).found}
        first(S) == CHOOSE j \in S : \A k \in S : j <= k
    IN  IF direct # {}
        THEN [found |-> TRUE, layer |-> items[first(direct)],
              parentLayer |-> parentLayer, path |-> Append(path, items[first(direct)])]
        ELSE IF deep # {}
        THEN findTargetLayer(Get(items[first(deep)], "layers"), targetLayerName,
                             items[first(deep)], Append(path, items[first(deep)]))
        ELSE NotFound

\* mutant: the search of a layer's children starts from the path of the
\* layer's siblings, without the layer
findFromNotExtendingPath(items, i, targetLayerName, parentLayer, path) ==
    IF i > Len(items) THEN NotFound
    ELSE LET layer == items[i]
         IN  IF MatchesTarget(layer, targetLayerName)
             THEN [found |-> TRUE, layer |-> layer,
                   parentLayer |-> parentLayer, path |-> Append(path, layer)]
             ELSE IF HasLayers(layer)
             THEN LET result == findTargetLayer(Get(layer, "layers"),
                                    targetLayerName, layer, path)
                  IN  IF result.found THEN result
                      ELSE findFrom(items, i + 1, targetLayerName, parentLayer, path)
             ELSE findFrom(items, i + 1, targetLayerName, parentLayer, path)

\* the for loop of findTargetLayer, from the i-th layer on
findFrom(items, i, targetLayerName, parentLayer, path) ==
    IF i > Len(items) THEN NotFound
    ELSE LET layer == items[i]
         IN  IF MatchesTarget(layer, targetLayerName)
             THEN [found |-> TRUE, layer |-> layer,
                   parentLayer |-> parentLayer, path |-> Append(path, layer)]
             ELSE IF HasLayers(layer)
             THEN LET result == findTargetLayer(Get(layer, "layers"),
                                    targetLayerName, layer, Append(path, layer))
                  IN  IF result.found THEN result
                      ELSE findFrom(items, i + 1, targetLayerName, parentLayer, path)
             ELSE findFrom(items, i + 1, targetLayerName, parentLayer, path)

findTargetLayer(layers, targetLayerName, parentLayer, path) ==
    IF ~IsArray(layers) THEN NotFound
    ELSE findFrom(layers.v, 1, targetLayerName, parentLayer, path)

\* mutant: the input is returned when the target is not found
pruneReturningInputWhenNotFound(layers, targetLayerName) ==
    IF targetLayerName = "" THEN layers
    ELSE IF ~IsArray(layers) THEN Arr(<<>>)
    ELSE LET r == findTargetLayer(layers, targetLayerName, Null, <<>>)
         IN  IF ~r.found \/ r.layer = Null THEN layers
             ELSE IF r.parentLayer # Null THEN Arr(<<r.parentLayer>>)
             ELSE Arr(<<r.layer>>)

\* mutant: the array test comes before the test of the name
pruneCheckingArrayFirst(layers, targetLayerName) ==
    IF ~IsArray(layers) THEN Arr(<<>>)
    ELSE IF targetLayerName = "" THEN layers
    ELSE LET r == findTargetLayer(layers, targetLayerName, Null, <<>>)
         IN  IF ~r.found \/ r.layer = Null THEN Arr(<<>>)
             ELSE IF r.parentLayer # Null THEN Arr(<<r.parentLayer>>)
             ELSE Arr(<<r.layer>>)

\* mutant: a target without parent gives all the layers searched
pruneReturningAllForTopLevel(layers, targetLayerName) ==
    IF targetLayerName = "" THEN layers
    ELSE IF ~IsArray(layers) THEN Arr(<<>>)
    ELSE LET r == findTargetLayer(layers, targetLayerName, Null, <<>>)
         IN  IF ~r.found \/ r.layer = Null THEN Arr(<<>>)
             ELSE IF r.parentLayer # Null THEN Arr(<<r.parentLayer>>)
             ELSE layers

\* mutant: the parent is returned without its layers
pruneReturningParentWithoutLayers(layers, targetLayerName) ==
    IF targetLayerName = "" THEN layers
    ELSE IF ~IsArray(layers) THEN Arr(<<>>)
    ELSE LET r == findTargetLayer(layers, targetLayerName, Null, <<>>)
         IN  IF ~r.found \/ r.layer = Null THEN Arr(<<>>)
             ELSE IF r.parentLayer # Null
             THEN Arr(<<Obj(SelectSeq(r.parentLayer.v, LAMBDA e : e[1] # "layers"))>>)
             ELSE Arr(<<r.layer>>)

pruneLayersForTargetLayer(layers, targetLayerName) ==
    IF targetLayerName = "" THEN layers
    ELSE IF ~IsArray(layers) THEN Arr(<<>>)
    ELSE LET r == findTargetLayer(layers, targetLayerName, Null, <<>>)
         IN  IF ~r.found \/ r.layer = Null THEN Arr(<<>>)
             ELSE IF r.parentLayer # Null THEN Arr(<<r.parentLayer>>)
             ELSE Arr(<<r.layer>>)

\* { ...obj, [key]: value }: the entry takes the key's place if the object
\* has the key and is added last otherwise
SetField(obj, key, value) ==
    IF HasKey(obj, key)
    THEN Obj([i \in 1..Len(obj.v) |->
                 IF obj.v[i][1] = key THEN <<key, value>> ELSE obj.v[i]])
    ELSE Obj(Append(obj.v, <<key, value>>))

\* api-utils.ts, the earlier pruner: the parent is copied and its layers
\* replaced by the target alone
pruneLayersForComponent(layers, targetComponentName) ==
    IF targetComponentName = "" THEN layers
    ELSE IF ~IsArray(layers) THEN Arr(<<>>)
    ELSE LET r == findTargetLayer(layers, targetComponentName, Null, <<>>)
         IN  IF ~r.found \/ r.layer = Null THEN Arr(<<>>)
             ELSE IF r.parentLayer # Null
             THEN Arr(<<SetField(r.parentLayer, "layers", Arr(<<r.layer>>))>>)
             ELSE Arr(<<r.layer>>)

(***************************************************************************)
(* JavaScript values beside JSON: undefined, truthiness, property reads.   *)
(***************************************************************************)
Undefined == [k |-> "undefined", v |-> "undefined"]

\* o.key: undefined when o is no object or has no such property
Prop(o, key) == IF HasKey(o, key) THEN Get(o, key) ELSE Undefined

\* !!x
Truthy(x) == x \notin {Undefined, Null, Str(""), Num("0")}

\* x || d
OrElse(x, d) == IF Truthy(x) THEN x ELSE d

\* a * b on numbers, kept as the product of the two literals
Times(a, b) == [k |-> "product", v |-> <<a, b>>]

\* the entries whose value is not undefined (JSON.stringify leaves the
\* others out)
Defined(entry) == entry[2] # Undefined

(***************************************************************************)
(* utils/asset-registry.ts: assetRecords is a map from layerSourceId to    *)
(* record, here a function whose domain is the set of registered keys.     *)
(***************************************************************************)
EmptyRecords == [key \in {} |-> Undefined]

\* mutant: reset leaves the records in place
resetKeepingRecords(assetRecords) == assetRecords

\* AssetRegistry.reset: this.assetRecords.clear()
reset(assetRecords) == EmptyRecords

\* mutant: a key that is registered keeps its record
registerAssetKeepingFirst(assetRecords, asset) ==
    IF ~Truthy(Prop(asset, "layerSourceId")) \/ ~Truthy(Prop(asset, "contents"))
    THEN assetRecords
    ELSE IF Prop(asset, "layerSourceId").v \in DOMAIN assetRecords
    THEN assetRecords
    ELSE LET key == Prop(asset, "layerSourceId").v
             contents == Prop(asset, "contents").v
             record == [displayName |-> Prop(asset, "displayName"),
                        layerName |-> Prop(asset, "layerName"),
                        contents |->
                            [i \in 1..Len(contents) |->
                                [format |-> Prop(contents[i], "format"),
                                 url |-> Prop(contents[i], "url")]]]
         IN  [x \in DOMAIN assetRecords \cup {key} |->
                 IF x = key THEN record ELSE assetRecords[x]]

\* AssetRegistry.registerAsset
registerAsset(assetRecords, asset) ==
    IF ~Truthy(Prop(asset, "layerSourceId")) \/ ~Truthy(Prop(asset, "contents"))
    THEN assetRecords
    ELSE LET key == Prop(asset, "layerSourceId").v
             contents == Prop(asset, "contents").v
             record == [displayName |-> Prop(asset, "displayName"),
                        layerName |-> Prop(asset, "layerName"),
                        contents |->
                            [i \in 1..Len(contents) |->
                                [format |-> Prop(contents[i], "format"),
                                 url |-> Prop(contents[i], "url")]]]
         IN  [x \in DOMAIN assetRecords \cup {key} |->
                 IF x = key THEN record ELSE assetRecords[x]]

\* mutant: a call of registerAssets clears the registry first
RECURSIVE registerEach(_, _)
registerEach(assetRecords, assets) ==
    IF assets = <<>> THEN assetRecords
    ELSE registerEach(registerAsset(assetRecords, Head(assets)), Tail(assets))

registerAssetsAfterClearing(assetRecords, assets) ==
    IF assets = <<>> THEN assetRecords ELSE registerEach(EmptyRecords, assets)

\* AssetRegistry.registerAssets: assets.forEach(asset => registerAsset(asset))
RECURSIVE registerAssets(_, _)
registerAssets(assetRecords, assets) ==
    IF assets = <<>> THEN assetRecords
    ELSE registerAssets(registerAsset(assetRecords, Head(assets)), Tail(assets))

\* AssetRegistry.getAssetRecord
getAssetRecord(assetRecords, layerSourceId) ==
    IF layerSourceId \in DOMAIN assetRecords THEN assetRecords[layerSourceId]
    ELSE Undefined

\* mutant: the url of the last content of that format
getLastAssetUrl(assetRecords, layerSourceId, format) ==
    IF layerSourceId \notin DOMAIN assetRecords THEN Undefined
    ELSE LET contents == assetRecords[layerSourceId].contents
             hits == {i \in 1..Len(contents) : contents[i].format = Str(format)}
         IN  IF hits = {} THEN Undefined
             ELSE contents[CHOOSE i \in hits : \A j \in hits : i >= j].url

\* AssetRegistry.getAssetUrl: the url of the first content of that format
getAssetUrl(assetRecords, layerSourceId, format) ==
    IF layerSourceId \notin DOMAIN assetRecords THEN Undefined
    ELSE LET contents == assetRecords[layerSourceId].contents
             hits == {i \in 1..Len(contents) : contents[i].format = Str(format)}
         IN  IF hits = {} THEN Undefined
             ELSE contents[CHOOSE i \in hits : \A j \in hits : i <= j].url

\* assets.filter(asset => asset.contents)
HasContents(asset) == Truthy(Prop(asset, "contents"))

(***************************************************************************)
(* utils/response-utils.ts                                                 *)
(***************************************************************************)
createErrorResponse(message) ==
    [content |-> <<[type |-> "text", text |-> message]>>, isError |-> TRUE]

\* The text is the instructions followed by the data's type and the data
\* as JSON.
createSuccessResponse(data, instructionsTemplate) ==
    [content |-> <<[type |-> "text",
                    text |-> [instructions |-> instructionsTemplate,
                              type |-> OrElse(Prop(data, "type"), Str("")),
                              json |-> data]]>>]

INSTRUCTIONS == "INSTRUCTIONS"

(***************************************************************************)
(* utils/url-utils.ts: a URL is its host and the segments of its path.     *)
(* Each pattern is anchored at the start only; a match gives the two       *)
(* captured segments.                                                      *)
(***************************************************************************)
NoMatch == <<>>

\* https://app.zeplin.io/styleguide/([^/]+)/component/([^/]+)
MatchComponent(url) ==
    IF /\ url.host = "app.zeplin.io" /\ Len(url.path) >= 4
       /\ url.path[1] = "styleguide" /\ url.path[3] = "component"
    THEN <<url.path[2], url.path[4]>> ELSE NoMatch

\* https://app.zeplin.io/project/([^/]+)/styleguide/component/([^/]+)
MatchProjectStyleguideComponent(url) ==
    IF /\ url.host = "app.zeplin.io" /\ Len(url.path) >= 5
       /\ url.path[1] = "project" /\ url.path[3] = "styleguide"
       /\ url.path[4] = "component"
    THEN <<url.path[2], url.path[5]>> ELSE NoMatch

\* https://app.zeplin.io/project/([^/]+)/screen/([^/]+)
MatchScreen(url) ==
    IF /\ url.host = "app.zeplin.io" /\ Len(url.path) >= 4
       /\ url.path[1] = "project" /\ url.path[3] = "screen"
    THEN <<url.path[2], url.path[4]>> ELSE NoMatch

(***************************************************************************)
(* The design API (the external collaborator): what each fetch returns     *)
(* when it succeeds.  Project p holds screens s1 and s2, two variants of   *)
(* one variant group g, and screen s3; styleguide sg holds component c1    *)
(* of section sec1 (with c2) and component c3, whose section is not        *)
(* listed; pc is a component of project p.                                 *)
(***************************************************************************)
Content(url, format, density) ==
    Obj(<< <<"url", Str(url)>>, <<"format", Str(format)>>, <<"density", Num(density)>> >>)

Asset(key, name, contents) ==
    Obj(<< <<"id", Str(name)>>, <<"layerSourceId", Str(key)>>,
           <<"displayName", Str(name)>>, <<"layerName", Str(name)>>,
           <<"contents", Arr(contents)>> >>)

\* api.screens.getScreen
ApiScreen(screenId) ==
    CASE screenId = "s1" ->
            Obj(<< <<"id", Str("s1")>>, <<"name", Str("Home")>>,
                   <<"variant", Obj(<< <<"value", Str("Default")>>,
                                       <<"group", Field("id", Str("g"))>> >>)>> >>)
      [] screenId = "s2" ->
            Obj(<< <<"id", Str("s2")>>, <<"name", Str("Home hover")>>,
                   <<"variant", Obj(<< <<"value", Str("Hover")>>,
                                       <<"group", Field("id", Str("g"))>> >>)>> >>)
      [] OTHER -> Obj(<< <<"id", Str(screenId)>>, <<"name", Str("")>> >>)

\* api.screens.getScreenVariant: the first entry of the group has no
\* screen yet
ApiScreenVariant(variantGroupId) ==
    Obj(<< <<"id", Str(variantGroupId)>>, <<"name", Str("Home states")>>,
           <<"variants",
             Arr(<< Field("value", Str("Draft")),
                    Obj(<< <<"screenId", Str("s1")>>, <<"value", Str("Default")>> >>),
                    Obj(<< <<"screenId", Str("s2")>>, <<"value", Str("Hover")>> >>) >>)>> >>)

\* api.screens.getLatestScreenVersion
ApiLatestScreenVersion(screenId) ==
    CASE screenId = "s1" ->
            Obj(<< <<"id", Str("v1")>>, <<"width", Num("100")>>, <<"height", Num("200")>>,
                   <<"layers",
                     Arr(<< Obj(<< <<"id", Str("l1")>>, <<"name", Str("Root")>>,
                                   <<"opacity", Num("1")>>,
                                   <<"layers",
                                     Arr(<< Obj(<< <<"name", Str("B")>>,
                                                   <<"rotation", Num("0")>> >>),
                                            Obj(<< <<"name", Str("T")>>,
                                                   <<"opacity", Num("0.5")>>,
                                                   <<"layers", Arr(<<Field("name", Str("Icon"))>>)>> >>)
                                         >>)>> >>) >>)>>,
                   <<"assets",
                     Arr(<< Asset("k1", "icon",
                                  << Content("u1.png", "png", "1"),
                                     Content("u1@2x.png", "png", "2"),
                                     Content("u1.svg", "svg", "1") >>),
                            Asset("k2", "photo", << Content("u2@2x.png", "png", "2") >>) >>)>> >>)
      [] screenId = "s2" ->
            Obj(<< <<"id", Str("v2")>>, <<"width", Num("300")>>, <<"height", Num("400")>>,
                   <<"layers", Arr(<< Obj(<< <<"name", Str("B")>>,
                                             <<"blend_mode", Str("normal")>> >>) >>)>>,
                   <<"assets",
                     Arr(<< Asset("k1", "icon hover",
                                  << Content("h1.png", "png", "1") >>) >>)>> >>)
      [] OTHER ->
            Obj(<< <<"id", Str("v3")>>, <<"width", Num("0")>>,
                   <<"layers", Arr(<< Obj(<< <<"componentName", Str("T")>>,
                                             <<"name", Str("Button")>> >>),
                                      Field("name", Str("B")) >>)>>,
                   <<"assets",
                     Arr(<< Asset("k3", "logo", << Content("u3.svg", "svg", "1") >>),
                            Obj(<< <<"displayName", Str("unkeyed")>>,
                                   <<"contents", Arr(<< Content("u0.png", "png", "1") >>)>> >>)
                         >>)>> >>)

Annotation(text, x, y) ==
    Obj(<< <<"id", Str(text)>>, <<"type", Field("name", Str("note"))>>,
           <<"content", Str(text)>>,
           <<"position", Obj(<< <<"x", Num(x)>>, <<"y", Num(y)>> >>)>> >>)

\* api.screens.getScreenAnnotations
ApiScreenAnnotations(screenId) ==
    CASE screenId = "s1" -> Arr(<< Annotation("on s1", "0.5", "0.5") >>)
      [] screenId = "s2" -> Arr(<< Annotation("on s2", "0.25", "0.5") >>)
      [] OTHER -> Arr(<<>>)

\* api.designTokens.getProjectDesignTokens / getStyleguideDesignTokens
ApiDesignTokens(resourceId) ==
    Obj(<< <<"colors",
             Field("primary",
                   Obj(<< <<"value", Str(resourceId)>>,
                          <<"metadata", Field("source", Str("styleguide"))>> >>))>> >>)

\* api.components.getProjectComponent / getStyleguideComponent /
\* getStyleguideComponents, one component
ApiComponent(componentId) ==
    CASE componentId = "c1" ->
            Obj(<< <<"id", Str("c1")>>, <<"name", Str("Button")>>,
                   <<"section", Field("id", Str("sec1"))>>,
                   <<"latestVersion",
                     Obj(<< <<"layers", Arr(<< Obj(<< <<"id", Str("l7")>>,
                                                      <<"name", Str("Label")>>,
                                                      <<"opacity", Num("1")>> >>) >>)>>,
                            <<"assets",
                              Arr(<< Asset("k4", "glyph", << Content("u4.svg", "svg", "1"),
                                                            Content("u4.png", "png", "1"),
                                                            Content("u4@2x.png", "png", "2") >>),
                                     Asset("k5", "blank", <<>>) >>)>> >>)>> >>)
      [] componentId = "c2" ->
            Obj(<< <<"id", Str("c2")>>, <<"name", Str("Button pressed")>>,
                   <<"section", Field("id", Str("sec1"))>>,
                   <<"latestVersion",
                     Obj(<< <<"layers", Arr(<< Field("name", Str("Label")) >>)>>,
                            <<"assets",
                              Arr(<< Asset("k6", "glyph pressed",
                                           << Content("u6@2x.png", "png", "2") >>) >>)>> >>)>> >>)
      [] componentId = "c3" ->
            Obj(<< <<"id", Str("c3")>>, <<"name", Str("Badge")>>,
                   <<"section", Field("id", Str("sec9"))>>,
                   <<"latestVersion",
                     Obj(<< <<"layers", Arr(<< Field("name", Str("Dot")) >>)>>,
                            <<"assets",
                              Arr(<< Asset("k7", "dot", << Content("u7.png", "png", "1") >>) >>)>> >>)>> >>)
      [] OTHER ->
            Obj(<< <<"id", Str(componentId)>>, <<"name", Str("Card")>>,
                   <<"latestVersion",
                     Obj(<< <<"layers", Arr(<< Field("name", Str("Frame")) >>)>> >>)>> >>)

\* api.components.getStyleguideComponentSections
ApiComponentSections(styleguideId) ==
    Arr(<< Obj(<< <<"id", Str("sec1")>>, <<"name", Str("Buttons")>> >>) >>)

\* api.components.getStyleguideComponents with a sectionId
ApiSectionComponents(styleguideId, sectionId) ==
    Arr(<< ApiComponent("c1"), ApiComponent("c2") >>)

(***************************************************************************)
(* The same functions over the object heap.  A cell is an array or an      *)
(* object whose items and field values are scalars or references to        *)
(* cells; the heap is the sequence of its cells and an address is an       *)
(* index.  A function takes the heap and returns the heap after it with    *)
(* its value: what it allocates is appended, what it assigns to is         *)
(* changed in place.                                                       *)
(***************************************************************************)
Ref(a) == [k |-> "ref", v |-> a]
IsRef(x) == x.k = "ref"

\* Array.isArray(x), x a scalar or a reference
IsArrayAt(h, x) == IsRef(x) /\ IsArray(h[x.v])
\* x !== null && typeof x === "object" && !Array.isArray(x)
IsObjectAt(h, x) == IsRef(x) /\ IsObject(h[x.v])
IsEmptyArrayAt(h, x) == IsArrayAt(h, x) /\ Len(h[x.v].v) = 0
\* x.key
PropAt(h, x, key) == IF IsObjectAt(h, x) THEN Prop(h[x.v], key) ELSE Undefined

\* a new cell: the heap with the cell, and the reference to it
Alloc(h, cell) == <<Append(h, cell), Ref(Len(h) + 1)>>

\* the document node as cells of the heap: the heap with them, and the
\* scalar or the reference to the node's cell
RECURSIVE Store(_, _)
RECURSIVE StoreAll(_, _)
StoreAll(h, nodes) ==
    IF nodes = <<>> THEN <<h, <<>>>>
    ELSE LET first == Store(h, Head(nodes))
             rest == StoreAll(first[1], Tail(nodes))
         IN  <<rest[1], <<first[2]>> \o rest[2]>>

Store(h, node) ==
    IF IsArray(node)
    THEN LET items == StoreAll(h, node.v)
         IN  Alloc(items[1], Arr(items[2]))
    ELSE IF IsObject(node)
    THEN LET values == StoreAll(h, [i \in 1..Len(node.v) |-> node.v[i][2]])
         IN  Alloc(values[1],
                   Obj([i \in 1..Len(node.v) |-> <<node.v[i][1], values[2][i]>>]))
    ELSE <<h, node>>

\* the document node that the scalar or reference stands for
RECURSIVE Load(_, _)
Load(h, x) ==
    IF IsArrayAt(h, x)
    THEN Arr([i \in 1..Len(h[x.v].v) |-> Load(h, h[x.v].v[i])])
    ELSE IF IsObjectAt(h, x)
    THEN Obj([i \in 1..Len(h[x.v].v) |->
                 <<h[x.v].v[i][1], Load(h, h[x.v].v[i][2])>>])
    ELSE x

\* obj[key] = value on the cell at address a
Assign(h, a, key, value) == [h EXCEPT ![a] = SetField(@, key, value)]

RECURSIVE preProcessOnHeap(_, _)
RECURSIVE preProcessAllOnHeap(_, _)
RECURSIVE preProcessEntriesOnHeap(_, _, _)

\* items.map(item => preProcess(item)): the heap after the calls and the
\* values they returned
preProcessAllOnHeap(h, items) ==
    IF items = <<>> THEN <<h, <<>>>>
    ELSE LET first == preProcessOnHeap(h, Head(items))
             rest == preProcessAllOnHeap(first[1], Tail(items))
         IN  <<rest[1], <<first[2]>> \o rest[2]>>

\* items.map(item => preProcess(item)).filter(item => not an empty array):
\* map and filter each return a new array
preProcessItemsOnHeap(h, items) ==
    LET mapped == preProcessAllOnHeap(h, items)
        afterMap == Alloc(mapped[1], Arr(mapped[2]))
    IN  Alloc(afterMap[1],
              Arr(SelectSeq(mapped[2], LAMBDA x : ~IsEmptyArrayAt(afterMap[1], x))))

\* the filter over the original items of a `contents` array
KeepContentItemAt(h, item) ==
    IF IsObjectAt(h, item) /\ HasKey(h[item.v], "density")
    THEN Get(h[item.v], "density") = Num("1")
    ELSE IF IsEmptyArrayAt(h, item) THEN FALSE
    ELSE TRUE

\* the loop over Object.entries(data), filling the object at address result
preProcessEntriesOnHeap(h, result, entries) ==
    IF entries = <<>> THEN h
    ELSE LET key == Head(entries)[1]
             value == Head(entries)[2]
         IN  IF key \in propsToSkip
             THEN preProcessEntriesOnHeap(h, result, Tail(entries))
             ELSE IF key \in DOMAIN defaultValues /\ defaultValues[key] = value
             THEN preProcessEntriesOnHeap(h, result, Tail(entries))
             ELSE LET processed ==
                          IF key = "contents" /\ IsArrayAt(h, value)
                          THEN LET itemsToKeep ==
                                       Alloc(h, Arr(SelectSeq(h[value.v].v,
                                                 LAMBDA x : KeepContentItemAt(h, x))))
                               IN  preProcessItemsOnHeap(itemsToKeep[1],
                                       itemsToKeep[1][itemsToKeep[2].v].v)
                          ELSE preProcessOnHeap(h, value)
                  IN  IF IsEmptyArrayAt(processed[1], processed[2])
                      THEN preProcessEntriesOnHeap(processed[1], result, Tail(entries))
                      ELSE preProcessEntriesOnHeap(
                               Assign(processed[1], result, key, processed[2]),
                               result, Tail(entries))

\* mutant: a property to skip is deleted from the object it is found in
preProcessOnHeapDeleting(h, data) ==
    IF IsArrayAt(h, data) THEN preProcessItemsOnHeap(h, h[data.v].v)
    ELSE IF IsObjectAt(h, data)
    THEN LET kept == SelectSeq(h[data.v].v, LAMBDA e : e[1] \notin propsToSkip)
             deleted == [h EXCEPT ![data.v] = Obj(kept)]
             result == Alloc(deleted, Obj(<<>>))
         IN  <<preProcessEntriesOnHeap(result[1], result[2].v, kept), result[2]>>
    ELSE <<h, data>>

preProcessOnHeap(h, data) ==
    IF IsArrayAt(h, data) THEN preProcessItemsOnHeap(h, h[data.v].v)
    ELSE IF IsObjectAt(h, data)
    THEN LET result == Alloc(h, Obj(<<>>))
         IN  <<preProcessEntriesOnHeap(result[1], result[2].v, h[data.v].v),
               result[2]>>
    ELSE <<h, data>>

\* layer.componentName === targetLayerName || layer.name === targetLayerName
MatchesTargetAt(h, layer, targetLayerName) ==
    \/ PropAt(h, layer, "componentName") = Str(targetLayerName)
    \/ PropAt(h, layer, "name") = Str(targetLayerName)

RECURSIVE findTargetLayerOnHeap(_, _, _, _, _)
RECURSIVE findFromOnHeap(_, _, _, _, _, _)

\* the for loop of findTargetLayer, from the i-th layer on
findFromOnHeap(h, items, i, targetLayerName, parentLayer, path) ==
    IF i > Len(items) THEN NotFound
    ELSE LET layer == items[i]
         IN  IF MatchesTargetAt(h, layer, targetLayerName)
             THEN [found |-> TRUE, layer |-> layer,
                   parentLayer |-> parentLayer, path |-> Append(path, layer)]
             ELSE IF IsArrayAt(h, PropAt(h, layer, "layers"))
             THEN LET result == findTargetLayerOnHeap(h, PropAt(h, layer, "layers"),
                                    targetLayerName, layer, Append(path, layer))
                  IN  IF result.found THEN result
                      ELSE findFromOnHeap(h, items, i + 1, targetLayerName,
                                          parentLayer, path)
             ELSE findFromOnHeap(h, items, i + 1, targetLayerName, parentLayer, path)

\* findTargetLayer reads the heap and assigns to nothing; its layer,
\* parentLayer and path elements are references into the argument
findTargetLayerOnHeap(h, layers, targetLayerName, parentLayer, path) ==
    IF ~IsArrayAt(h, layers) THEN NotFound
    ELSE findFromOnHeap(h, h[layers.v].v, 1, targetLayerName, parentLayer, path)

pruneLayersForTargetLayerOnHeap(h, layers, targetLayerName) ==
    IF targetLayerName = "" THEN <<h, layers>>
    ELSE IF ~IsArrayAt(h, layers) THEN Alloc(h, Arr(<<>>))
    ELSE LET r == findTargetLayerOnHeap(h, layers, targetLayerName, Null, <<>>)
         IN  IF ~r.found \/ r.layer = Null THEN Alloc(h, Arr(<<>>))
             ELSE IF r.parentLayer # Null THEN Alloc(h, Arr(<<r.parentLayer>>))
             ELSE Alloc(h, Arr(<<r.layer>>))

\* mutant: the layers of the parent itself are replaced, not those of a
\* copy
pruneLayersForComponentInPlace(h, layers, targetComponentName) ==
    IF targetComponentName = "" THEN <<h, layers>>
    ELSE IF ~IsArrayAt(h, layers) THEN Alloc(h, Arr(<<>>))
    ELSE LET r == findTargetLayerOnHeap(h, layers, targetComponentName, Null, <<>>)
         IN  IF ~r.found \/ r.layer = Null THEN Alloc(h, Arr(<<>>))
             ELSE IF r.parentLayer # Null
             THEN LET only == Alloc(h, Arr(<<r.layer>>))
                  IN  Alloc(Assign(only[1], r.parentLayer.v, "layers", only[2]),
                            Arr(<<r.parentLayer>>))
             ELSE Alloc(h, Arr(<<r.layer>>))

\* const prunedParent = { ...parentLayer }; prunedParent.layers =
\* [targetLayer]; return [prunedParent]
pruneLayersForComponentOnHeap(h, layers, targetComponentName) ==
    IF targetComponentName = "" THEN <<h, layers>>
    ELSE IF ~IsArrayAt(h, layers) THEN Alloc(h, Arr(<<>>))
    ELSE LET r == findTargetLayerOnHeap(h, layers, targetComponentName, Null, <<>>)
         IN  IF ~r.found \/ r.layer = Null THEN Alloc(h, Arr(<<>>))
             ELSE IF r.parentLayer # Null
             THEN LET prunedParent == Alloc(h, h[r.parentLayer.v])
                      only == Alloc(prunedParent[1], Arr(<<r.layer>>))
                  IN  Alloc(Assign(only[1], prunedParent[2].v, "layers", only[2]),
                            Arr(<<prunedParent[2]>>))
             ELSE Alloc(h, Arr(<<r.layer>>))

(***************************************************************************)
(* State.                                                                  *)
(*   doc, out, prev, stage    the normaliser's input, its latest result,   *)
(*                            the result before that, and what ran last    *)
(*   layers, targetLayerName  the pruner's arguments                       *)
(*   located, pruned, pstage  the locator's and the pruner's results, and  *)
(*                            what ran last                                *)
(*   prunedAgain              the pruner's result on its own result        *)
(*   assetRecords             the asset registry's map                     *)
(*   reqs                     the top-level requests: for each its         *)
(*                            arguments, the await it is suspended at, its *)
(*                            locals and its result                        *)
(*   history                  the resets of the registry and the           *)
(*                            registrations, in the order they happened:   *)
(*                            the request, the kind and, for a             *)
(*                            registration, the keys stored                *)
(*   heap, arg, ret           the object heap, the argument of the call    *)
(*                            made on it and the value the call returned   *)
(***************************************************************************)
VARIABLES doc, out, prev, stage,
          layers, targetLayerName, located, pruned, prunedAgain, pstage,
          assetRecords, reqs, history,
          heap, arg, ret

normVars == <<doc, out, prev, stage>>
pruneVars == <<layers, targetLayerName, located, pruned, prunedAgain, pstage>>
sysVars == <<assetRecords, reqs, history>>
heapVars == <<heap, arg, ret>>
vars == <<normVars, pruneVars, sysVars, heapVars>>

\* the variables of the normaliser and of the pruner when they are not
\* the ones a specification is about
NormIdle == doc = Null /\ out = Null /\ prev = Null /\ stage = "idle"
PruneIdle ==
    /\ layers = Null /\ targetLayerName = "" /\ located = NotFound
    /\ pruned = Null /\ prunedAgain = Null /\ pstage = "idle"
SysIdle == assetRecords = EmptyRecords /\ reqs = <<>> /\ history = <<>>
HeapIdle == heap = <<>> /\ arg = Null /\ ret = Null

(***************************************************************************)
(* Bounded document nodes: a core (a scalar, a one-entry object, an array  *)
(* or a `contents` array of up to MaxLen items) inside up to MaxDepth      *)
(* enclosing objects and arrays.                                           *)
(***************************************************************************)
MaxLen == 2
MaxDepth == 2

RECURSIVE SeqsOfLen(_, _)
SeqsOfLen(S, n) ==
    IF n = 0 THEN {<<>>}
    ELSE {Append(s, x) : s \in SeqsOfLen(S, n - 1), x \in S}

SeqsUpTo(S, n) == UNION {SeqsOfLen(S, i) : i \in 0..n}

Scalars == {Num("1"), Num("0"), Num("0.5"), Str("normal"), Str("1"), Null}

LeafValues == Scalars \cup {Arr(<<>>), Obj(<<>>)}

FieldKeys ==
    {"id", "thumbnails", "opacity", "blend_mode", "rotation", "density",
     "contents", "metadata", "name"}

\* the items a `contents` array is drawn from
ContentItems ==
    {Obj(<< <<"format", Str("png")>>, <<"density", Num("1")>> >>),
     Obj(<< <<"density", Num("2")>>, <<"format", Str("png")>> >>),
     Field("format", Str("svg")),
     Field("id", Str("c")),
     Arr(<<>>)}

\* the items a plain array is drawn from
ArrayItems == {Arr(<<>>), Obj(<<>>), Field("layers", Arr(<<>>))}

Cores ==
    LeafValues
      \cup {Field(key, value) : key \in FieldKeys, value \in LeafValues}
      \cup {Field("contents", Arr(items)) : items \in SeqsUpTo(ContentItems, MaxLen)}
      \cup {Arr(items) : items \in SeqsUpTo(ArrayItems, MaxLen)}

Wrappers == {"layers", "contents", "metadata", "creator", "array", "styled"}

\* node c inside one more object or array
Wrap(w, c) ==
    CASE w = "array" -> Arr(<<Arr(<<>>), c>>)
      [] w = "styled" ->
            Obj(<< <<"rotation", Num("0")>>, <<"fill", c>>,
                   <<"opacity", Num("0.5")>>, <<"metadata", Str("m")>> >>)
      [] OTHER -> Field(w, c)

RECURSIVE Wrapped(_)
Wrapped(depth) ==
    IF depth = 0 THEN Cores
    ELSE LET inner == Wrapped(depth - 1)
         IN  inner \cup {Wrap(w, c) : w \in Wrappers, c \in inner}

Documents == Wrapped(MaxDepth)

(***************************************************************************)
(* SpecNorm: the normaliser and the token sanitiser applied to a document. *)
(***************************************************************************)
InitNorm ==
    /\ doc \in Documents
    /\ out = Null
    /\ prev = Null
    /\ stage = "input"
    /\ PruneIdle
    /\ SysIdle
    /\ HeapIdle

\* preProcess(data) on the document, on its own result, on the result of
\* preProcessDesignTokens or on the result of removeMetadata
PreProcessStep ==
    /\ stage \in {"input", "normalized", "tokens", "stripped"}
    /\ out' = preProcess(IF stage = "input" THEN doc ELSE out)
    /\ prev' = out
    /\ stage' = CASE stage = "input" -> "normalized"
                  [] stage = "normalized" -> "renormalized"
                  [] stage = "tokens" -> "tokensNormalized"
                  [] stage = "stripped" -> "strippedNormalized"
    /\ UNCHANGED <<doc, pruneVars, sysVars, heapVars>>

\* preProcessDesignTokens(designTokens) on the document
DesignTokensStep ==
    /\ stage = "input"
    /\ out' = preProcessDesignTokens(doc)
    /\ prev' = out
    /\ stage' = "tokens"
    /\ UNCHANGED <<doc, pruneVars, sysVars, heapVars>>

\* removeMetadata(obj) on the document
RemoveMetadataStep ==
    /\ stage = "input"
    /\ out' = removeMetadata(doc)
    /\ prev' = out
    /\ stage' = "stripped"
    /\ UNCHANGED <<doc, pruneVars, sysVars, heapVars>>

NextNorm == PreProcessStep \/ DesignTokensStep \/ RemoveMetadataStep

SpecNorm == InitNorm /\ [][NextNorm]_vars

(***************************************************************************)
(* Properties of the normaliser (SpecNorm).                                *)
(***************************************************************************)
IsScalar(x) == x.k \in {"num", "str", "null"}

\* some object at any depth of node has a field whose name is in keys
RECURSIVE HasKeyAnywhere(_, _)
HasKeyAnywhere(node, keys) ==
    IF IsArray(node)
    THEN \E i \in 1..Len(node.v) : HasKeyAnywhere(node.v[i], keys)
    ELSE IF IsObject(node)
    THEN \E i \in 1..Len(node.v) :
            node.v[i][1] \in keys \/ HasKeyAnywhere(node.v[i][2], keys)
    ELSE FALSE

Normalized == stage \in {"normalized", "renormalized"}

\* C6: normalize is idempotent: normalising the result of normalize(d)
\* again gives the same document, for every document d.
C6_NormalizeIdempotent == stage = "renormalized" => out = prev

\* C6 witness: a second pass has run over a document with a density entry
\* that the first pass changed.
C6_Witness ==
    /\ stage = "renormalized"
    /\ prev # doc
    /\ HasKeyAnywhere(doc, {"density"})
    /\ HasKeyAnywhere(prev, {"density"})

NoiseFields == {"id", "created", "creator", "thumbnails"}

\* C7: no record at any depth of normalize(d) has a field named id,
\* created, creator or thumbnails.
C7_NoNoiseFields == Normalized => ~HasKeyAnywhere(out, NoiseFields)

\* C7 witness: a document with a noise field below its top level has been
\* normalised to a non-empty object.
C7_Witness ==
    /\ stage = "normalized"
    /\ IsObject(doc)
    /\ KeysOf(doc) \cap NoiseFields = {}
    /\ HasKeyAnywhere(doc, NoiseFields)
    /\ IsObject(out) /\ out.v # <<>>

SpecDefault(key) ==
    CASE key = "opacity" -> Num("1")
      [] key = "blend_mode" -> Str("normal")
      [] key = "rotation" -> Num("0")

\* Walks an input node and its normalised counterpart together, along
\* the fields both have and along arrays that lost no element, and
\* requires of every pair of records: a scalar opacity, blend_mode or
\* rotation is absent from the result if it equals the default and is
\* kept with its value otherwise.
RECURSIVE DefaultsElided(_, _)
DefaultsElided(in, res) ==
    IF IsObject(in) /\ IsObject(res)
    THEN /\ \A key \in {"opacity", "blend_mode", "rotation"} :
              (HasKey(in, key) /\ IsScalar(Get(in, key))) =>
                  IF Get(in, key) = SpecDefault(key)
                  THEN ~HasKey(res, key)
                  ELSE HasKey(res, key) /\ Get(res, key) = Get(in, key)
         /\ \A key \in KeysOf(in) \cap KeysOf(res) :
              DefaultsElided(Get(in, key), Get(res, key))
    ELSE IF IsArray(in) /\ IsArray(res) /\ Len(in.v) = Len(res.v)
    THEN \A i \in 1..Len(in.v) : DefaultsElided(in.v[i], res.v[i])
    ELSE TRUE

\* C8: in every record at any depth, normalize drops opacity exactly when
\* it is 1, blend_mode exactly when it is "normal" and rotation exactly
\* when it is 0; any other scalar value is kept unchanged under its name.
C8_DefaultsValueDependent == stage = "normalized" => DefaultsElided(doc, out)

\* C8 witness: a nested record with rotation 0 and opacity 0.5 has been
\* normalised: rotation is gone, opacity 0.5 is kept.
C8_Witness ==
    /\ stage = "normalized"
    /\ HasKey(doc, "layers") /\ HasKey(Get(doc, "layers"), "rotation")
    /\ HasKey(Get(doc, "layers"), "opacity")
    /\ Get(Get(doc, "layers"), "rotation") = Num("0")
    /\ Get(Get(doc, "layers"), "opacity") = Num("0.5")
    /\ HasKey(out, "layers")
    /\ ~HasKey(Get(out, "layers"), "rotation")
    /\ Get(Get(out, "layers"), "opacity") = Num("0.5")

DensityAbsentOrOne(item) ==
    ~HasKey(item, "density") \/ Get(item, "density") = Num("1")

\* the entries of a `contents` array with no density or density 1, in
\* order, each normalised
KeptByDensity(items) ==
    LET kept == SelectSeq(items, DensityAbsentOrOne)
    IN  [i \in 1..Len(kept) |-> preProcess(kept[i])]

KeptByDensityNonEmpty(items) == SelectSeq(KeptByDensity(items), NotEmptyArray)

\* Walks an input node and its normalised counterpart together and
\* requires of every `contents` array of the input that the result holds
\* the kept entries under `contents`, or no `contents` when none is kept.
\* With dropEmpty, kept entries that normalise to an empty sequence are
\* expected to be gone as well.
RECURSIVE ContentsFiltered(_, _, _)
ContentsFiltered(in, res, dropEmpty) ==
    IF IsObject(in) /\ IsObject(res)
    THEN /\ (HasKey(in, "contents") /\ IsArray(Get(in, "contents"))) =>
              LET items == Get(in, "contents").v
                  expected == IF dropEmpty THEN KeptByDensityNonEmpty(items)
                              ELSE KeptByDensity(items)
              IN  IF expected = <<>>
                  THEN ~HasKey(res, "contents")
                  ELSE HasKey(res, "contents")
                         /\ Get(res, "contents") = Arr(expected)
         /\ \A key \in KeysOf(in) \cap KeysOf(res) :
              ContentsFiltered(Get(in, key), Get(res, key), dropEmpty)
    ELSE IF IsArray(in) /\ IsArray(res) /\ Len(in.v) = Len(res.v)
    THEN \A i \in 1..Len(in.v) :
              ContentsFiltered(in.v[i], res.v[i], dropEmpty)
    ELSE TRUE

\* C9 as stated: normalize keeps, in order, exactly the `contents`
\* entries with no density or density 1, each normalised.
C9_ContentsKeptByDensityOnly ==
    stage = "normalized" => ContentsFiltered(doc, out, FALSE)

\* C9 amended: normalize keeps, in order, exactly the `contents` entries
\* with no density or density 1 whose normalised value is not an empty
\* sequence, each normalised.
C9_ContentsKeptByDensity ==
    stage = "normalized" => ContentsFiltered(doc, out, TRUE)

\* C9 witness: a nested `contents` array with a density-1 and a density-2
\* entry has been normalised and only the density-1 entry remains.
C9_Witness ==
    /\ stage = "normalized"
    /\ HasKey(doc, "layers") /\ HasKey(Get(doc, "layers"), "contents")
    /\ LET items == Get(Get(doc, "layers"), "contents")
       IN  /\ IsArray(items) /\ Len(items.v) = 2
           /\ HasKey(items.v[1], "density") /\ HasKey(items.v[2], "density")
           /\ Get(items.v[1], "density") = Num("1")
           /\ Get(items.v[2], "density") = Num("2")
           /\ HasKey(out, "layers") /\ HasKey(Get(out, "layers"), "contents")
           /\ Get(Get(out, "layers"), "contents") = Arr(<<items.v[1]>>)

NotMetadata(entry) == entry[1] # "metadata"

\* s is n without its `metadata` fields: same arrays element by element,
\* same other fields in the same order, same scalars.
RECURSIVE SameButMetadata(_, _)
SameButMetadata(n, s) ==
    IF IsArray(n)
    THEN /\ IsArray(s) /\ Len(s.v) = Len(n.v)
         /\ \A i \in 1..Len(n.v) : SameButMetadata(n.v[i], s.v[i])
    ELSE IF IsObject(n)
    THEN LET keep == SelectSeq(n.v, NotMetadata)
         IN  /\ IsObject(s) /\ Len(s.v) = Len(keep)
             /\ \A i \in 1..Len(keep) :
                  /\ s.v[i][1] = keep[i][1]
                  /\ SameButMetadata(keep[i][2], s.v[i][2])
    ELSE s = n

\* C10: sanitizeTokens(d) has no `metadata` field at any depth and differs
\* from normalize(d) only by the removal of those fields.
C10_TokensOnlyLoseMetadata ==
    stage = "tokens" =>
        /\ ~HasKeyAnywhere(out, {"metadata"})
        /\ SameButMetadata(preProcess(doc), out)

\* C10 witness: a token document whose normal form has a `metadata` field
\* inside an array has been sanitised to a non-empty result.
C10_Witness ==
    /\ stage = "tokens"
    /\ IsArray(doc) /\ HasKeyAnywhere(preProcess(doc), {"metadata"})
    /\ out # preProcess(doc)
    /\ out # Arr(<<>>)

(***************************************************************************)
(* SpecPrune: the locator and the pruners applied to a layer forest.       *)
(* A forest has up to MaxNodes layers; every layer carries its own         *)
(* sourceId, so that two layers are never the same value.                  *)
(***************************************************************************)
MaxNodes == 4

\* the name fields of a layer: named T (the target), named B, or an
\* instance of component T named B
LayerLabels ==
    {<< <<"name", Str("T")>> >>,
     << <<"name", Str("B")>> >>,
     << <<"componentName", Str("T")>>, <<"name", Str("B")>> >>}

Layer(label, n, children) ==
    Obj(<< <<"sourceId", Str(ToString(n))>> >> \o label
          \o (IF children = <<>> THEN <<>>
              ELSE << <<"layers", Arr(children)>> >>))

\* ShapeTable(n)[i + 1]: the forests of exactly i layers, i in 0..n, each
\* layer a label and its children, not yet numbered
RECURSIVE ShapeTable(_)
ShapeTable(n) ==
    IF n = 0 THEN << {<<>>} >>
    ELSE LET t == ShapeTable(n - 1)
         IN  Append(t,
                UNION {{<<[label |-> label, kids |-> kids]>> \o rest :
                           label \in LayerLabels,
                           kids \in t[size],
                           rest \in t[n - size + 1]} :
                       size \in 1..n})

RECURSIVE SizeOf(_)
SizeOf(shapes) ==
    IF shapes = <<>> THEN 0
    ELSE 1 + SizeOf(Head(shapes).kids) + SizeOf(Tail(shapes))

\* the layers of a forest of shapes, numbered from s in pre-order
RECURSIVE Numbered(_, _)
Numbered(shapes, s) ==
    IF shapes = <<>> THEN <<>>
    ELSE <<Layer(Head(shapes).label, s, Numbered(Head(shapes).kids, s + 1))>>
           \o Numbered(Tail(shapes), s + 1 + SizeOf(Head(shapes).kids))

Forests ==
    LET t == ShapeTable(MaxNodes)
    IN  {Numbered(shapes, 1) : shapes \in UNION {t[i] : i \in 1..Len(t)}}

TargetNames == {"", "T"}

InitPrune ==
    /\ layers \in {Arr(f) : f \in Forests} \cup {Null}
    /\ targetLayerName \in TargetNames
    /\ located = NotFound
    /\ pruned = Null
    /\ prunedAgain = Null
    /\ pstage = "input"
    /\ NormIdle
    /\ SysIdle
    /\ HeapIdle

\* findTargetLayer(layers, targetLayerName)
LocateStep ==
    /\ pstage = "input"
    /\ located' = findTargetLayer(layers, targetLayerName, Null, <<>>)
    /\ pstage' = "located"
    /\ UNCHANGED <<layers, targetLayerName, prunedAgain, pruned, normVars, sysVars, heapVars>>

\* pruneLayersForTargetLayer(layers, targetLayerName)
PruneStep ==
    /\ pstage = "input"
    /\ pruned' = pruneLayersForTargetLayer(layers, targetLayerName)
    /\ pstage' = "pruned"
    /\ UNCHANGED <<layers, targetLayerName, prunedAgain, located, normVars, sysVars, heapVars>>

\* pruneLayersForComponent(layers, targetComponentName)
PruneForComponentStep ==
    /\ pstage = "input"
    /\ pruned' = pruneLayersForComponent(layers, targetLayerName)
    /\ pstage' = "prunedForComponent"
    /\ UNCHANGED <<layers, targetLayerName, prunedAgain, located, normVars, sysVars, heapVars>>

\* findTargetLayer(pruned, targetLayerName), pruned the layers a pruner
\* returned
LocateInPrunedStep ==
    /\ pstage \in {"pruned", "prunedForComponent"}
    /\ located' = findTargetLayer(pruned, targetLayerName, Null, <<>>)
    /\ pstage' = IF pstage = "pruned" THEN "locatedInPruned"
                 ELSE "locatedInPrunedForComponent"
    /\ UNCHANGED <<layers, targetLayerName, prunedAgain, pruned, normVars, sysVars,
                   heapVars>>

\* the pruner that returned pruned, called on pruned
PruneAgainStep ==
    /\ pstage \in {"pruned", "prunedForComponent"}
    /\ prunedAgain' = IF pstage = "pruned"
                      THEN pruneLayersForTargetLayer(pruned, targetLayerName)
                      ELSE pruneLayersForComponent(pruned, targetLayerName)
    /\ pstage' = IF pstage = "pruned" THEN "prunedAgain"
                 ELSE "prunedForComponentAgain"
    /\ UNCHANGED <<layers, targetLayerName, located, pruned, normVars, sysVars,
                   heapVars>>

NextPrune ==
    \/ LocateStep
    \/ PruneStep
    \/ PruneForComponentStep
    \/ LocateInPrunedStep
    \/ PruneAgainStep

SpecPrune == InitPrune /\ [][NextPrune]_vars

\* the first match of the target in the input forest
FirstMatch == findTargetLayer(layers, targetLayerName, Null, <<>>)

\* C1: when the first match of a non-empty targetName has a parent, prune
\* returns one element: the parent with all its fields unchanged except
\* `layers`, which holds only the matched node with its subtree intact.
C1_PruneKeepsParentAndTargetOnly ==
    (/\ pstage = "pruned"
     /\ targetLayerName # ""
     /\ FirstMatch.found
     /\ FirstMatch.parentLayer # Null)
    => pruned = Arr(<<SetField(FirstMatch.parentLayer, "layers",
                               Arr(<<FirstMatch.layer>>))>>)

\* the layers of a forest, each with the layer whose `layers` holds it
\* (Null at the top level), in depth-first pre-order
RECURSIVE PreOrder(_, _)
PreOrder(items, parent) ==
    IF items = <<>> THEN <<>>
    ELSE <<[layer |-> Head(items), parent |-> parent]>>
           \o (IF IsArray(Prop(Head(items), "layers"))
               THEN PreOrder(Prop(Head(items), "layers").v, Head(items))
               ELSE <<>>)
           \o PreOrder(Tail(items), parent)

ForestPreOrder == IF IsArray(layers) THEN PreOrder(layers.v, Null) ELSE <<>>

\* the name or the componentName of the layer is the target
NamedTarget(layer) ==
    \/ Prop(layer, "name") = Str(targetLayerName)
    \/ Prop(layer, "componentName") = Str(targetLayerName)

\* the positions in pre-order of the layers named as the target
Matches == {i \in 1..Len(ForestPreOrder) : NamedTarget(ForestPreOrder[i].layer)}

\* C11: when no layer of the forest has the target as its name or
\* componentName, findTargetLayer returns found = false with null layer,
\* null parent and an empty path, and pruneLayersForTargetLayer, for a
\* non-empty target, returns the empty sequence.
C11_NoMatchGivesNotFoundAndEmpty ==
    Matches = {} =>
        /\ pstage = "located" =>
              located = [found |-> FALSE, layer |-> Null,
                         parentLayer |-> Null, path |-> <<>>]
        /\ (pstage = "pruned" /\ targetLayerName # "") => pruned = Arr(<<>>)

\* a forest of several layers, some nested, none named as the non-empty
\* target, has been pruned
C11_Witness ==
    /\ pstage = "pruned"
    /\ targetLayerName # ""
    /\ Matches = {}
    /\ Len(ForestPreOrder) >= 3
    /\ \E i \in 1..Len(ForestPreOrder) : ForestPreOrder[i].parent # Null
    /\ pruned = Arr(<<>>)

\* C12: with an empty target pruneLayersForTargetLayer returns layers
\* itself, whatever layers is.
C12_EmptyTargetReturnsLayers ==
    (pstage = "pruned" /\ targetLayerName = "") => pruned = layers

\* a forest with nested layers has been pruned with an empty target
C12_Witness ==
    /\ pstage = "pruned"
    /\ targetLayerName = ""
    /\ Len(ForestPreOrder) >= 3
    /\ \E i \in 1..Len(ForestPreOrder) : ForestPreOrder[i].parent # Null
    /\ pruned = layers

\* C13: findTargetLayer returns the first layer in depth-first pre-order
\* whose name or componentName is the target, with the layer whose
\* `layers` directly holds it as parent, null for a top-level match.
C13_LocateFirstInPreOrder ==
    pstage = "located" =>
        IF Matches = {} THEN ~located.found
        ELSE LET first == CHOOSE i \in Matches : \A j \in Matches : i <= j
             IN  /\ located.found
                 /\ located.layer = ForestPreOrder[first].layer
                 /\ located.parentLayer = ForestPreOrder[first].parent

\* the match is nested under the first top-level layer while a later
\* top-level layer is named as the target too
C13_Witness ==
    /\ pstage = "located"
    /\ located.found
    /\ located.parentLayer # Null
    /\ located.parentLayer = layers.v[1]
    /\ \E j \in 2..Len(layers.v) : NamedTarget(layers.v[j])

(***************************************************************************)
(* The server: top-level requests against the design API and the asset     *)
(* registry.  A request is a record of its arguments, the await it is      *)
(* suspended at (pc), the locals that live across awaits, and its result.  *)
(* JavaScript runs a handler to completion between two awaits, so there    *)
(* is one action per entry and per continuation.                           *)
(*                                                                         *)
(* Some fields record history for the properties: events (the resets,     *)
(* fetches and registrations of the request in program order), fetches    *)
(* (the API calls issued, in order), arrivals (the sub-fetches of a Promise.all in their  *)
(* order of completion), failed (the call that rejected), didReset,        *)
(* fetchedKeys (the asset keys in the data received) and keysAtStart (the  *)
(* registry's keys at entry).                                              *)
(***************************************************************************)
MaxRequests == 2

Url(host, path) == [host |-> host, path |-> path]

Urls ==
    { Url("app.zeplin.io", <<"project", "p", "screen", "s1">>),
      Url("app.zeplin.io", <<"project", "p", "screen", "s2">>),
      Url("app.zeplin.io", <<"project", "p", "screen", "s3">>),
      Url("app.zeplin.io", <<"styleguide", "sg", "component", "c1">>),
      Url("app.zeplin.io", <<"styleguide", "sg", "component", "c3">>),
      Url("app.zeplin.io", <<"project", "p", "styleguide", "component", "pc">>),
      Url("example.com", <<"project", "p", "screen", "s1">>) }

LayerNames == {"", "T"}

IdleRequest ==
    [pc |-> "idle", tool |-> "", url |-> Url("", <<>>),
     includeVariants |-> FALSE, targetLayerName |-> "",
     projectId |-> "", screenId |-> "", styleguideId |-> "", componentId |-> "",
     isProjectComponent |-> FALSE,
     name |-> Undefined, screenIds |-> <<>>, variantNames |-> <<>>,
     pending |-> {}, versions |-> <<>>, annotations |-> <<>>, variants |-> <<>>,
     component |-> Undefined, section |-> Undefined, designTokens |-> Undefined,
     layerSourceId |-> "", assetType |-> "", assetUrl |-> Undefined,
     result |-> Undefined, failed |-> <<>>,
     didReset |-> FALSE, events |-> <<>>, arrivals |-> <<>>, fetches |-> <<>>, fetchedKeys |-> {}, keysAtStart |-> {}]

\* a request whose result has been delivered and that a later request follows
ReturnedRequest == [IdleRequest EXCEPT !.pc = "returned"]

\* the pair an entry or a continuation produces: the request and the registry
Step(rq, records) == [rq |-> rq, records |-> records]

\* return result
Return(rq, result) == [rq EXCEPT !.pc = "done", !.result = result, !.pending = {}]

\* a call of the API client
Issue(rq, endpoint, id) ==
    [rq EXCEPT !.fetches = Append(@, <<endpoint, id>>),
               !.events = Append(@, <<"fetch", endpoint, id>>)]

\* assetRegistry.reset() has been called
DidReset(rq) == [rq EXCEPT !.didReset = TRUE, !.events = Append(@, <<"reset">>)]

\* assetRegistry.registerAssets(...) has been called
DidRegister(rq, called, keys) ==
    IF called THEN [rq EXCEPT !.events = Append(@, <<"register", keys>>)] ELSE rq

\* the keys of the assets of the sequence that registerAsset stores
RegistrableKeys(assets) ==
    {Prop(assets[i], "layerSourceId").v :
        i \in {j \in 1..Len(assets) : /\ Truthy(Prop(assets[j], "layerSourceId"))
                                       /\ Truthy(Prop(assets[j], "contents"))}}

\* ids.map(id => call(id)): the calls are issued in the order of the ids
IssueAll(rq, endpoint, ids) ==
    [rq EXCEPT !.fetches = @ \o [i \in 1..Len(ids) |-> <<endpoint, ids[i]>>],
               !.events = @ \o [i \in 1..Len(ids) |-> <<"fetch", endpoint, ids[i]>>]]

\* the keys of the assets in a version as the API returned it
AssetKeys(version) ==
    LET assets == Prop(version, "assets")
    IN  IF ~Truthy(assets) THEN {}
        ELSE {Prop(assets.v[i], "layerSourceId").v :
                i \in {j \in 1..Len(assets.v) :
                          Truthy(Prop(assets.v[j], "layerSourceId"))}}

Received(rq, keys) == [rq EXCEPT !.fetchedKeys = @ \cup keys]

(***************************************************************************)
(* index.ts getScreenData with clients/zeplinApi.ts                        *)
(* processScreenVersionsAndAnnotations and fetchProjectDesignTokens.       *)
(***************************************************************************)
InvalidScreenLink == <<"Screen link is not valid">>
FailedScreen == "Failed to fetch screen data: "
ApiError == "API error"

\* mutant: the screen is requested before the registry is reset
EnterScreenFetchingFirst(rq, records) ==
    LET match == MatchScreen(rq.url)
    IN  IF match = NoMatch
        THEN Step(Return(rq, createErrorResponse(InvalidScreenLink)), records)
        ELSE Step(DidReset(Issue([rq EXCEPT !.projectId = match[1],
                                            !.screenId = match[2],
                                            !.pc = "awaitScreen"],
                                 "getScreen", match[2])),
                  reset(records))

\* mutant: the registry is reset before the URL is matched
EnterScreenResettingFirst(rq, records) ==
    LET match == MatchScreen(rq.url)
    IN  IF match = NoMatch
        THEN Step(Return(DidReset(rq), createErrorResponse(InvalidScreenLink)),
                  reset(records))
        ELSE Step(Issue(DidReset([rq EXCEPT !.projectId = match[1],
                                            !.screenId = match[2],
                                            !.pc = "awaitScreen"]),
                        "getScreen", match[2]),
                  reset(records))

\* getScreenData up to its first await: an URL that is no screen link is
\* answered before the registry is touched
EnterScreen(rq, records) ==
    LET match == MatchScreen(rq.url)
    IN  IF match = NoMatch
        THEN Step(Return(rq, createErrorResponse(InvalidScreenLink)), records)
        ELSE Step(Issue(DidReset([rq EXCEPT !.projectId = match[1],
                                            !.screenId = match[2],
                                            !.pc = "awaitScreen"]),
                        "getScreen", match[2]),
                  reset(records))

\* screenIds.map(...getLatestScreenVersion...) handed to Promise.all
RECURSIVE AfterAnnotations(_, _)
StartAnnotations(rq, records) ==
    LET n == Len(rq.screenIds)
        rq1 == IssueAll([rq EXCEPT !.pc = "awaitAnnotations", !.pending = 1..n,
                                   !.annotations = [i \in 1..n |-> Undefined]],
                        "getScreenAnnotations", rq.screenIds)
    IN  IF n = 0 THEN AfterAnnotations(rq1, records) ELSE Step(rq1, records)

StartVersions(rq, records) ==
    LET n == Len(rq.screenIds)
        rq1 == IssueAll([rq EXCEPT !.pc = "awaitVersions", !.pending = 1..n,
                                   !.versions = [i \in 1..n |-> Undefined]],
                        "getLatestScreenVersion", rq.screenIds)
    IN  IF n = 0 THEN StartAnnotations(rq1, records) ELSE Step(rq1, records)

\* mutant: the variant group is fetched whenever the screen has one
AfterScreenAlwaysExpanding(rq, records) ==
    LET screen == ApiScreen(rq.screenId)
        variant == Prop(screen, "variant")
        screenName == OrElse(Prop(screen, "name"), Str("Unnamed Screen"))
    IN  IF Truthy(variant)
        THEN Step(Issue([rq EXCEPT !.pc = "awaitVariantGroup"],
                        "getScreenVariant", Prop(Prop(variant, "group"), "id").v),
                  records)
        ELSE StartVersions([rq EXCEPT !.name = screenName,
                                      !.screenIds = <<rq.screenId>>,
                                      !.variantNames = <<screenName>>],
                           records)

\* the continuation of await api.screens.getScreen
AfterScreen(rq, records) ==
    LET screen == ApiScreen(rq.screenId)
        variant == Prop(screen, "variant")
        screenName == OrElse(Prop(screen, "name"), Str("Unnamed Screen"))
    IN  IF Truthy(variant) /\ rq.includeVariants
        THEN Step(Issue([rq EXCEPT !.pc = "awaitVariantGroup"],
                        "getScreenVariant", Prop(Prop(variant, "group"), "id").v),
                  records)
        ELSE StartVersions([rq EXCEPT !.name = screenName,
                                      !.screenIds = <<rq.screenId>>,
                                      !.variantNames = <<screenName>>],
                           records)

\* the continuation of await api.screens.getScreenVariant
AfterVariantGroup(rq, records) ==
    LET screen == ApiScreen(rq.screenId)
        variantGroup == ApiScreenVariant(Prop(Prop(Prop(screen, "variant"), "group"), "id").v)
        groupVariants == Prop(variantGroup, "variants").v
        ids == SelectSeq([i \in 1..Len(groupVariants) |-> Prop(groupVariants[i], "screenId")],
                         LAMBDA id : id # Undefined)
        names == SelectSeq([i \in 1..Len(groupVariants) |-> Prop(groupVariants[i], "value")],
                           LAMBDA name : name # Undefined)
    IN  StartVersions([rq EXCEPT !.name = Prop(variantGroup, "name"),
                                 !.screenIds = [i \in 1..Len(ids) |-> ids[i].v],
                                 !.variantNames = names],
                      records)

\* mutant: the results of Promise.all are in the order of completion
VersionArrivedInCompletionOrder(rq, records, i) ==
    LET data == ApiLatestScreenVersion(rq.screenIds[i])
        slot == Len(rq.screenIds) - Cardinality(rq.pending) + 1
        rq1 == Received([rq EXCEPT !.versions[slot] = preProcess(data),
                                   !.pending = @ \ {i},
                                   !.arrivals = Append(@, <<"version", i>>)],
                        AssetKeys(data))
    IN  IF rq1.pending = {} THEN StartAnnotations(rq1, records) ELSE Step(rq1, records)

\* the continuation of one await api.screens.getLatestScreenVersion: the
\* version is normalised as it arrives; Promise.all resumes the caller
\* when the last one has, with the results in the order of the calls
VersionArrived(rq, records, i) ==
    LET data == ApiLatestScreenVersion(rq.screenIds[i])
        rq1 == Received([rq EXCEPT !.versions[i] = preProcess(data),
                                   !.pending = @ \ {i},
                                   !.arrivals = Append(@, <<"version", i>>)],
                        AssetKeys(data))
    IN  IF rq1.pending = {} THEN StartAnnotations(rq1, records) ELSE Step(rq1, records)

\* annotations.map(annotation => ({type, text, position}))
screenAnnotations(annotations, screenVersion) ==
    Arr([j \in 1..Len(annotations.v) |->
            LET annotation == annotations.v[j]
            IN  Obj(<< <<"type", Prop(Prop(annotation, "type"), "name")>>,
                       <<"text", Prop(annotation, "content")>>,
                       <<"position",
                         Obj(<< <<"x", Times(Prop(Prop(annotation, "position"), "x"),
                                             OrElse(Prop(screenVersion, "width"), Num("0")))>>,
                                <<"y", Times(Prop(Prop(annotation, "position"), "y"),
                                             OrElse(Prop(screenVersion, "height"), Num("0")))>>
                             >>)>> >>)])

\* targetLayerName ? pruneLayersForTargetLayer(layers || [], name) : layers || []
layersToInclude(screenVersion, name) ==
    IF name # ""
    THEN pruneLayersForTargetLayer(OrElse(Prop(screenVersion, "layers"), Arr(<<>>)), name)
    ELSE OrElse(Prop(screenVersion, "layers"), Arr(<<>>))

\* screenVersionResponses.map((response, index) => ({name, annotations,
\* layers, assets}))
ScreenVariants(rq) ==
    [i \in 1..Len(rq.versions) |->
        [name |-> IF i <= Len(rq.variantNames) THEN rq.variantNames[i] ELSE Undefined,
         annotations |-> screenAnnotations(rq.annotations[i], rq.versions[i]),
         layers |-> layersToInclude(rq.versions[i], rq.targetLayerName),
         assets |-> Prop(rq.versions[i], "assets")]]

\* variants.forEach(variant => { if (variant.assets && variant.assets.length
\* > 0) registerAssets(variant.assets.filter(asset => asset.contents)) })
RECURSIVE registerVariantAssets(_, _)
\* mutant: the variants are gone through from the last to the first
registerVariantAssetsLastFirst(records, variants) ==
    IF variants = <<>> THEN records
    ELSE LET assets == Head(variants).assets
             records1 == registerVariantAssets(records, Tail(variants))
         IN  IF Truthy(assets) /\ Len(assets.v) > 0
             THEN registerAssets(records1, SelectSeq(assets.v, HasContents))
             ELSE records1

registerVariantAssets(records, variants) ==
    IF variants = <<>> THEN records
    ELSE LET assets == Head(variants).assets
             records1 == IF Truthy(assets) /\ Len(assets.v) > 0
                         THEN registerAssets(records, SelectSeq(assets.v, HasContents))
                         ELSE records
         IN  registerVariantAssets(records1, Tail(variants))

\* the rest of processScreenVersionsAndAnnotations and getScreenData up
\* to await fetchProjectDesignTokens
AfterAnnotations(rq, records) ==
    LET variants == ScreenVariants(rq)
        called == \E i \in 1..Len(variants) :
                      Truthy(variants[i].assets) /\ Len(variants[i].assets.v) > 0
        keys == UNION {IF Truthy(variants[i].assets)
                       THEN RegistrableKeys(variants[i].assets.v) ELSE {} :
                       i \in 1..Len(variants)}
    IN  Step(Issue(DidRegister([rq EXCEPT !.variants = variants, !.pc = "awaitTokens"],
                               called, keys),
                   "getProjectDesignTokens", rq.projectId),
             registerVariantAssets(records, variants))

\* the continuation of one await api.screens.getScreenAnnotations
AnnotationsArrived(rq, records, i) ==
    LET rq1 == [rq EXCEPT !.annotations[i] = ApiScreenAnnotations(rq.screenIds[i]),
                          !.pending = @ \ {i},
                          !.arrivals = Append(@, <<"annotations", i>>)]
    IN  IF rq1.pending = {} THEN AfterAnnotations(rq1, records) ELSE Step(rq1, records)

\* fetchProjectDesignTokens / fetchStyleguideDesignTokens after the await
fetchDesignTokens(resourceId) ==
    Field("designTokens", preProcessDesignTokens(ApiDesignTokens(resourceId)))

\* an object literal as JSON.stringify writes it: without the properties
\* whose value is undefined
Literal(entries) == Obj(SelectSeq(entries, Defined))

\* const screenData = {type: "Screen", name, variants, designTokens}
ScreenData(rq, designTokens) ==
    Literal(<< <<"type", Str("Screen")>>,
               <<"name", rq.name>>,
               <<"variants",
                 Arr([i \in 1..Len(rq.variants) |->
                        Literal(<< <<"name", rq.variants[i].name>>,
                                   <<"annotations", rq.variants[i].annotations>>,
                                   <<"layers", rq.variants[i].layers>> >>)])>>,
               <<"designTokens", Prop(designTokens, "designTokens")>> >>)

\* the continuation of await fetchProjectDesignTokens in getScreenData
AfterTokens(rq, records) ==
    LET designTokens == fetchDesignTokens(rq.projectId)
    IN  Step(Return([rq EXCEPT !.designTokens = designTokens],
                    createSuccessResponse(ScreenData(rq, designTokens), INSTRUCTIONS)),
             records)

(***************************************************************************)
(* index.ts getComponentData                                               *)
(***************************************************************************)
InvalidComponentLink == <<"Component link is not valid">>
FailedComponent == "Failed to fetch component data: "

\* getComponentData up to its first await
EnterComponent(rq, records) ==
    LET first == MatchComponent(rq.url)
        isProjectComponent == first = NoMatch
        match == IF first # NoMatch THEN first
                 ELSE MatchProjectStyleguideComponent(rq.url)
    IN  IF match = NoMatch
        THEN Step(Return(rq, createErrorResponse(InvalidComponentLink)), records)
        ELSE IF isProjectComponent
        THEN Step(Issue(DidReset([rq EXCEPT !.isProjectComponent = TRUE,
                                            !.projectId = match[1],
                                            !.componentId = match[2],
                                            !.pc = "awaitComponent"]),
                        "getProjectComponent", match[2]),
                  reset(records))
        ELSE Step(Issue(DidReset([rq EXCEPT !.styleguideId = match[1],
                                            !.componentId = match[2],
                                            !.pc = "awaitComponent"]),
                        "getStyleguideComponent", match[2]),
                  reset(records))

\* component.latestVersion?.assets registered, those with contents
registerComponentAssets(records, component) ==
    LET assets == Prop(Prop(component, "latestVersion"), "assets")
    IN  IF Truthy(assets) THEN registerAssets(records, SelectSeq(assets.v, HasContents))
        ELSE records

RECURSIVE registerSectionAssets(_, _)
registerSectionAssets(records, components) ==
    IF components = <<>> THEN records
    ELSE registerSectionAssets(registerComponentAssets(records, Head(components)),
                               Tail(components))

\* JSON.parse(JSON.stringify(component)), then delete latestVersion.assets
sanitizedComponent(component) ==
    LET latestVersion == Prop(component, "latestVersion")
    IN  IF Truthy(latestVersion) /\ HasKey(latestVersion, "assets")
        THEN SetField(component, "latestVersion",
                      Obj(SelectSeq(latestVersion.v, LAMBDA e : e[1] # "assets")))
        ELSE component

SingleComponent(rq, records) ==
    Step(Return(rq, createSuccessResponse(
                        Obj(<< <<"component", sanitizedComponent(rq.component)>> >>),
                        INSTRUCTIONS)),
         records)

\* the continuation of await api.components.getProjectComponent /
\* getStyleguideComponent: the design tokens are fetched next
AfterComponent(rq, records) ==
    LET rq1 == Received([rq EXCEPT !.component = ApiComponent(rq.componentId),
                                   !.pc = "awaitComponentTokens"],
                        AssetKeys(Prop(ApiComponent(rq.componentId), "latestVersion")))
    IN  IF rq.isProjectComponent /\ rq.projectId # ""
        THEN Step(Issue(rq1, "getProjectDesignTokens", rq.projectId), records)
        ELSE Step(Issue(rq1, "getStyleguideDesignTokens", rq.styleguideId), records)

\* the continuation of await fetch...DesignTokens in getComponentData
AfterComponentTokens(rq, records) ==
    LET designTokens == fetchDesignTokens(IF rq.isProjectComponent THEN rq.projectId
                                          ELSE rq.styleguideId)
        sectionId == Prop(Prop(rq.component, "section"), "id")
        assets == Prop(Prop(rq.component, "latestVersion"), "assets")
        rq1 == DidRegister([rq EXCEPT !.designTokens = designTokens], Truthy(assets),
                           IF Truthy(assets) THEN RegistrableKeys(assets.v) ELSE {})
        records1 == registerComponentAssets(records, rq.component)
    IN  IF ~Truthy(sectionId) \/ rq.styleguideId = ""
        THEN SingleComponent(rq1, records1)
        ELSE Step(Issue([rq1 EXCEPT !.pc = "awaitSections"],
                        "getStyleguideComponentSections", rq.styleguideId),
                  records1)

\* the continuation of await api.components.getStyleguideComponentSections
AfterSections(rq, records) ==
    LET sections == ApiComponentSections(rq.styleguideId).v
        sectionId == Prop(Prop(rq.component, "section"), "id")
        hits == {i \in 1..Len(sections) : Prop(sections[i], "id") = sectionId}
    IN  IF hits = {} THEN SingleComponent(rq, records)
        ELSE Step(Issue([rq EXCEPT !.section = sections[CHOOSE i \in hits :
                                                            \A j \in hits : i <= j],
                                   !.pc = "awaitSectionComponents"],
                        "getStyleguideComponents", sectionId.v),
                  records)

\* const componentData = {name: section.name, variants, designTokens}
ComponentData(rq, sectionComponents) ==
    Literal(<< <<"name", Prop(rq.section, "name")>>,
               <<"variants",
                 Arr([i \in 1..Len(sectionComponents) |->
                        LET componentVariant == sectionComponents[i]
                            properties == Prop(componentVariant, "variantProperties")
                        IN  Literal(<< <<"name", Prop(componentVariant, "name")>>,
                                       <<"props",
                                         IF ~IsArray(properties) THEN Undefined
                                         ELSE Arr([j \in 1..Len(properties.v) |->
                                                Literal(<< <<"name", Prop(properties.v[j], "name")>>,
                                                           <<"value", Prop(properties.v[j], "value")>> >>)])>>,
                                       <<"layers", Prop(Prop(componentVariant, "latestVersion"),
                                                        "layers")>> >>)])>>,
               <<"designTokens", Prop(rq.designTokens, "designTokens")>> >>)

RECURSIVE UnionOfKeys(_)
UnionOfKeys(components) ==
    IF components = <<>> THEN {}
    ELSE AssetKeys(Prop(Head(components), "latestVersion"))
            \cup UnionOfKeys(Tail(components))

\* the continuation of await api.components.getStyleguideComponents
AfterSectionComponents(rq, records) ==
    LET sectionComponents ==
            ApiSectionComponents(rq.styleguideId, Prop(rq.section, "id").v).v
        called == \E i \in 1..Len(sectionComponents) :
                      Truthy(Prop(Prop(sectionComponents[i], "latestVersion"), "assets"))
        keys == UNION {LET assets == Prop(Prop(sectionComponents[i], "latestVersion"),
                                          "assets")
                       IN  IF Truthy(assets) THEN RegistrableKeys(assets.v) ELSE {} :
                       i \in 1..Len(sectionComponents)}
    IN  Step(Return(Received(DidRegister(rq, called, keys),
                             UnionOfKeys(sectionComponents)),
                    createSuccessResponse(ComponentData(rq, sectionComponents),
                                          INSTRUCTIONS)),
             registerSectionAssets(records, sectionComponents))

(***************************************************************************)
(* The catch blocks: a rejected await inside the try returns an error      *)
(* result built from the error's message.                                  *)
(***************************************************************************)
\* mutant: the data gathered so far is returned as a success
FailWithPartialData(rq, call) ==
    Return([rq EXCEPT !.failed = call],
           createSuccessResponse(Literal(<< <<"type", Str("Screen")>>, <<"name", rq.name>> >>),
                                 INSTRUCTIONS))

Fail(rq, call) ==
    Return([rq EXCEPT !.failed = call],
           createErrorResponse(<<IF rq.tool = "get_screen" THEN FailedScreen
                                 ELSE FailedComponent, ApiError>>))

\* the calls a suspended request is waiting for
Awaited(rq) ==
    CASE rq.pc \in {"awaitVersions", "awaitAnnotations"} ->
            {<<IF rq.pc = "awaitVersions" THEN "getLatestScreenVersion"
               ELSE "getScreenAnnotations", rq.screenIds[i]>> : i \in rq.pending}
      [] rq.pc \in {"awaitScreen", "awaitVariantGroup", "awaitTokens", "awaitComponent",
                    "awaitComponentTokens", "awaitSections", "awaitSectionComponents"} ->
            {rq.fetches[Len(rq.fetches)]}
      [] OTHER -> {}

(***************************************************************************)
(* index.ts download_layer_asset handler with utils/asset-utils.ts         *)
(* downloadAsset.  The awaits of downloadAsset (mkdir, fetch, arrayBuffer, *)
(* writeFile) touch no state of the server and are one suspension here.    *)
(***************************************************************************)
NoAssetFound == "No asset found with layer source ID and format: "
FailedDownload == "Failed to download asset: "
ServerResponded == "Server responded with an error status"
Downloaded == "Asset successfully downloaded to "

AssetTypes == {"svg", "png", "pdf"}
LayerSourceIds == {"k1", "k4", "k5", "k9"}

\* createResponse({message}): one text content, isError undefined
createResponse(message) ==
    [content |-> <<[type |-> "text", text |-> message]>>]

\* the handler up to the await in downloadAsset
EnterDownload(rq, records) ==
    LET assetUrl == getAssetUrl(records, rq.layerSourceId, rq.assetType)
        rq1 == [rq EXCEPT !.assetUrl = assetUrl]
    IN  IF ~Truthy(assetUrl)
        THEN Step(Return(rq1, createErrorResponse(<<NoAssetFound, rq.layerSourceId,
                                                    rq.assetType>>)),
                  records)
        ELSE Step(Issue([rq1 EXCEPT !.pc = "awaitDownload"], "download", assetUrl.v),
                  records)

\* downloadAsset after its awaits: the server answered ok or not
AfterDownload(rq, records, ok) ==
    IF ~ok
    THEN Step(Return(rq, createErrorResponse(<<FailedDownload, ServerResponded>>)), records)
    ELSE Step(Return(rq, createResponse(<<Downloaded, rq.assetUrl.v>>)), records)

(***************************************************************************)
(* The server's steps.  Requests are served one after the other: a call    *)
(* is accepted when every earlier request has returned.                    *)
(***************************************************************************)
Init ==
    /\ assetRecords = EmptyRecords
    /\ reqs = <<>>
    /\ history = <<>>
    /\ NormIdle
    /\ PruneIdle
    /\ HeapIdle

AllReturned == \A q \in 1..Len(reqs) : reqs[q].pc \in {"done", "returned"}

\* the requests so far, the delivered ones forgotten, and a new one
Accept(rq) ==
    Append([q \in 1..Len(reqs) |->
              IF reqs[q].pc = "done" THEN ReturnedRequest ELSE reqs[q]], rq)

\* the resets and registrations among the events a run has added to the
\* request's, each with the request
Logged(r, before, after) ==
    LET kept == SelectSeq(SubSeq(after, Len(before) + 1, Len(after)),
                          LAMBDA e : e[1] \in {"reset", "register"})
    IN  [i \in 1..Len(kept) |-> <<r>> \o kept[i]]

\* a call is admitted and has run up to its first await
Serve(step) ==
    /\ reqs' = Accept(step.rq)
    /\ assetRecords' = step.records
    /\ history' = history \o Logged(Len(reqs) + 1, <<>>, step.rq.events)
    /\ UNCHANGED <<normVars, pruneVars, heapVars>>

Resume(r, step) ==
    /\ reqs' = [reqs EXCEPT ![r] = step.rq]
    /\ assetRecords' = step.records
    /\ history' = history \o Logged(r, reqs[r].events, step.rq.events)
    /\ UNCHANGED <<normVars, pruneVars, heapVars>>

\* getScreenData(url, includeVariants, targetLayerName) is called
ScreenCall(url, includeVariants, name) ==
    EnterScreen([IdleRequest EXCEPT !.tool = "get_screen", !.url = url,
                                       !.includeVariants = includeVariants,
                                       !.targetLayerName = name,
                                       !.keysAtStart = DOMAIN assetRecords],
                   assetRecords)

GetScreenData(url, includeVariants, name) ==
    /\ Len(reqs) < MaxRequests
    /\ AllReturned
    /\ Serve(ScreenCall(url, includeVariants, name))

\* getComponentData(url) is called
ComponentCall(url) ==
    EnterComponent([IdleRequest EXCEPT !.tool = "get_component", !.url = url,
                                          !.keysAtStart = DOMAIN assetRecords],
                      assetRecords)

GetComponentData(url) ==
    /\ Len(reqs) < MaxRequests
    /\ AllReturned
    /\ Serve(ComponentCall(url))

\* the download_layer_asset tool is called
DownloadCall(layerSourceId, assetType) ==
    EnterDownload([IdleRequest EXCEPT !.tool = "download_layer_asset",
                                         !.layerSourceId = layerSourceId,
                                         !.assetType = assetType,
                                         !.keysAtStart = DOMAIN assetRecords],
                     assetRecords)

DownloadLayerAsset(layerSourceId, assetType) ==
    /\ Len(reqs) < MaxRequests
    /\ AllReturned
    /\ Serve(DownloadCall(layerSourceId, assetType))

\* the download ends: the file is written, or the server answered with
\* an error status
DownloadCompletes(r, ok) ==
    /\ reqs[r].pc = "awaitDownload"
    /\ Resume(r, AfterDownload(reqs[r], assetRecords, ok))

\* an await of downloadAsset rejects: its catch block returns
DownloadFails(r) ==
    /\ reqs[r].pc = "awaitDownload"
    /\ Resume(r, Step(Return(reqs[r], createErrorResponse(<<FailedDownload, ApiError>>)),
                      assetRecords))

ScreenArrives(r) ==
    /\ reqs[r].pc = "awaitScreen"
    /\ Resume(r, AfterScreen(reqs[r], assetRecords))

VariantGroupArrives(r) ==
    /\ reqs[r].pc = "awaitVariantGroup"
    /\ Resume(r, AfterVariantGroup(reqs[r], assetRecords))

VersionArrives(r, i) ==
    /\ reqs[r].pc = "awaitVersions"
    /\ i \in reqs[r].pending
    /\ Resume(r, VersionArrived(reqs[r], assetRecords, i))

AnnotationsArrive(r, i) ==
    /\ reqs[r].pc = "awaitAnnotations"
    /\ i \in reqs[r].pending
    /\ Resume(r, AnnotationsArrived(reqs[r], assetRecords, i))

TokensArrive(r) ==
    /\ reqs[r].pc = "awaitTokens"
    /\ Resume(r, AfterTokens(reqs[r], assetRecords))

ComponentArrives(r) ==
    /\ reqs[r].pc = "awaitComponent"
    /\ Resume(r, AfterComponent(reqs[r], assetRecords))

ComponentTokensArrive(r) ==
    /\ reqs[r].pc = "awaitComponentTokens"
    /\ Resume(r, AfterComponentTokens(reqs[r], assetRecords))

SectionsArrive(r) ==
    /\ reqs[r].pc = "awaitSections"
    /\ Resume(r, AfterSections(reqs[r], assetRecords))

SectionComponentsArrive(r) ==
    /\ reqs[r].pc = "awaitSectionComponents"
    /\ Resume(r, AfterSectionComponents(reqs[r], assetRecords))

\* one of the awaited calls rejects: the catch block returns
FetchFails(r) ==
    /\ \E call \in Awaited(reqs[r]) :
          Resume(r, Step(Fail(reqs[r], call), assetRecords))

Next ==
    \/ \E url \in Urls, includeVariants \in BOOLEAN, name \in LayerNames :
          GetScreenData(url, includeVariants, name)
    \/ \E url \in Urls : GetComponentData(url)
    \/ \E layerSourceId \in LayerSourceIds, assetType \in AssetTypes :
          DownloadLayerAsset(layerSourceId, assetType)
    \/ \E r \in 1..Len(reqs) : \E ok \in BOOLEAN : DownloadCompletes(r, ok)
    \/ \E r \in 1..Len(reqs) : DownloadFails(r)
    \/ \E r \in 1..Len(reqs) : ScreenArrives(r)
    \/ \E r \in 1..Len(reqs) : VariantGroupArrives(r)
    \/ \E r \in 1..Len(reqs) : \E i \in 1..Len(reqs[r].screenIds) : VersionArrives(r, i)
    \/ \E r \in 1..Len(reqs) : \E i \in 1..Len(reqs[r].screenIds) : AnnotationsArrive(r, i)
    \/ \E r \in 1..Len(reqs) : TokensArrive(r)
    \/ \E r \in 1..Len(reqs) : ComponentArrives(r)
    \/ \E r \in 1..Len(reqs) : ComponentTokensArrive(r)
    \/ \E r \in 1..Len(reqs) : SectionsArrive(r)
    \/ \E r \in 1..Len(reqs) : SectionComponentsArrive(r)
    \/ \E r \in 1..Len(reqs) : FetchFails(r)

Spec == Init /\ [][Next]_vars

(***************************************************************************)
(* Properties of the server.                                               *)
(***************************************************************************)
Succeeded(rq) == rq.pc = "done" /\ "isError" \notin DOMAIN rq.result

\* the data of a success result
ResultData(rq) == rq.result.content[1].text.json

\* C2: of two extractions executed one after the other, once the second
\* has reset the registry every key in the registry comes from the data
\* the second has fetched; no entry of the first is left.
C2_SequentialExtractionsShareNoEntries ==
    \A r \in 1..Len(reqs) :
        (r > 1 /\ reqs[r].didReset) =>
            DOMAIN assetRecords \subseteq reqs[r].fetchedKeys

\* a second extraction has completed and registered assets, and a key the
\* first had left in the registry is gone
C2_Witness ==
    /\ Len(reqs) = 2
    /\ Succeeded(reqs[2])
    /\ DOMAIN assetRecords # {}
    /\ reqs[2].keysAtStart \ DOMAIN assetRecords # {}

\* C3: a record with an empty content sequence is never registered: after
\* reset and registerAssets of k1 with contents [] and k2 with contents
\* [{format: "svg", url: "u"}], getAssetRecord(k1) is undefined and
\* getAssetUrl(k2, "svg") is "u"; and no record stored in the registry has
\* an empty contents sequence.
C3_NoRecordWithEmptyContents ==
    /\ LET after == registerAssets(reset(assetRecords),
                        << Obj(<< <<"layerSourceId", Str("k1")>>,
                                  <<"contents", Arr(<<>>)>> >>),
                           Obj(<< <<"layerSourceId", Str("k2")>>,
                                  <<"contents",
                                    Arr(<< Obj(<< <<"format", Str("svg")>>,
                                                  <<"url", Str("u")>> >>) >>)>> >>) >>)
       IN  /\ getAssetRecord(after, "k1") = Undefined
           /\ getAssetUrl(after, "k2", "svg") = Str("u")
    /\ \A key \in DOMAIN assetRecords : assetRecords[key].contents # <<>>

\* the layers of a screen version, a forest, hold no layer whose name or
\* componentName is the target
NoLayerMatches(screenVersion, name) ==
    ~findTargetLayer(OrElse(Prop(screenVersion, "layers"), Arr(<<>>)),
                     name, Null, <<>>).found

\* C4: when get_screen is given a targetLayerName that matches no layer of
\* a fetched screen, the response holds all the layers of that screen, the
\* same sequence as without a targetLayerName.
C4_UnmatchedTargetReturnsAllLayers ==
    \A r \in 1..Len(reqs) :
        (Succeeded(reqs[r]) /\ reqs[r].tool = "get_screen"
            /\ reqs[r].targetLayerName # "") =>
            \A i \in 1..Len(reqs[r].versions) :
                NoLayerMatches(reqs[r].versions[i], reqs[r].targetLayerName) =>
                    Prop(Prop(ResultData(reqs[r]), "variants").v[i], "layers")
                        = layersToInclude(reqs[r].versions[i], "")

NoDuplicates(calls) ==
    \A i, j \in 1..Len(calls) : calls[i] = calls[j] => i = j

\* C5: when a fetch of an extraction fails, the extraction returns one
\* result with isError set and one text content that is the failure
\* message, holding no data; and no call is issued twice, the failed one
\* included.
C5_FailureIsOneErrorResult ==
    \A r \in 1..Len(reqs) :
        /\ NoDuplicates(reqs[r].fetches)
        /\ reqs[r].failed # <<>> =>
              /\ reqs[r].pc = "done"
              /\ "isError" \in DOMAIN reqs[r].result
              /\ reqs[r].result.isError
              /\ Len(reqs[r].result.content) = 1
              /\ reqs[r].result.content[1] =
                    [type |-> "text",
                     text |-> <<IF reqs[r].tool = "get_screen" THEN FailedScreen
                                ELSE FailedComponent, ApiError>>]

\* one of two concurrent version fetches has failed after the other had
\* delivered its data
C5_Witness ==
    \E r \in 1..Len(reqs) :
        /\ reqs[r].failed # <<>>
        /\ reqs[r].failed[1] = "getLatestScreenVersion"
        /\ \E i \in 1..Len(reqs[r].versions) : reqs[r].versions[i] # Undefined
        /\ reqs[r].result.isError

\* the url of the first entry of that format among the contents stored
\* under the key, undefined without such an entry or without the key
FirstUrlOfFormat(key, format) ==
    IF key \notin DOMAIN assetRecords THEN Undefined
    ELSE LET entries == SelectSeq(assetRecords[key].contents,
                                  LAMBDA c : c.format = Str(format))
         IN  IF entries = <<>> THEN Undefined ELSE Head(entries).url

\* C14: getAssetUrl(key, format) is the url of the first content entry of
\* that format, in stored order, of the record under the key, and
\* undefined when the key is not registered or no entry has the format;
\* download_layer_asset then returns an error and starts no download.
C14_LookupUrlFirstOfFormat ==
    \A r \in 1..Len(reqs) :
        reqs[r].tool = "download_layer_asset" =>
            LET url == FirstUrlOfFormat(reqs[r].layerSourceId, reqs[r].assetType)
            IN  /\ reqs[r].assetUrl = url
                /\ url = Undefined =>
                      /\ reqs[r].pc = "done"
                      /\ "isError" \in DOMAIN reqs[r].result
                      /\ reqs[r].result.isError
                      /\ reqs[r].fetches = <<>>
                /\ url # Undefined =>
                      reqs[r].fetches = << <<"download", url.v>> >>

\* the record under the key holds two entries of the format asked for,
\* and the download of the first has been written
C14_Witness ==
    \E r \in 1..Len(reqs) :
        /\ reqs[r].tool = "download_layer_asset"
        /\ reqs[r].layerSourceId \in DOMAIN assetRecords
        /\ Len(SelectSeq(assetRecords[reqs[r].layerSourceId].contents,
                         LAMBDA c : c.format = Str(reqs[r].assetType))) >= 2
        /\ reqs[r].pc = "done"
        /\ "isError" \notin DOMAIN reqs[r].result

\* position p of the call in the sequence, 0 when it is not there
RECURSIVE IndexOf(_, _)
IndexOf(seq, x) ==
    IF seq = <<>> THEN 0
    ELSE IF seq[Len(seq)] = x /\ IndexOf(SubSeq(seq, 1, Len(seq) - 1), x) = 0
    THEN Len(seq)
    ELSE IndexOf(SubSeq(seq, 1, Len(seq) - 1), x)

\* variant i of the response is built from the version and the
\* annotations of screen id, the positions scaled by that version's size
VariantIsOfScreen(variant, id, name) ==
    LET version == preProcess(ApiLatestScreenVersion(id))
        fetched == ApiScreenAnnotations(id).v
        annotations == Prop(variant, "annotations").v
    IN  /\ Prop(variant, "layers") = layersToInclude(version, name)
        /\ Len(annotations) = Len(fetched)
        /\ \A j \in 1..Len(fetched) :
              /\ Prop(annotations[j], "text") = Prop(fetched[j], "content")
              /\ Prop(Prop(annotations[j], "position"), "x").v =
                    <<Prop(Prop(fetched[j], "position"), "x"),
                      OrElse(Prop(version, "width"), Num("0"))>>
              /\ Prop(Prop(annotations[j], "position"), "y").v =
                    <<Prop(Prop(fetched[j], "position"), "y"),
                      OrElse(Prop(version, "height"), Num("0"))>>

\* C15: the per-variant sub-fetches are joined in request order: whatever
\* the order of completion, variant i of the response has the layers and
\* the annotations fetched for screenIds[i], the annotation positions
\* scaled by the width and height of screen version i.
C15_VariantsJoinedInRequestOrder ==
    \A r \in 1..Len(reqs) :
        (Succeeded(reqs[r]) /\ reqs[r].tool = "get_screen") =>
            LET variants == Prop(ResultData(reqs[r]), "variants").v
            IN  /\ Len(variants) = Len(reqs[r].screenIds)
                /\ \A i \in 1..Len(variants) :
                      VariantIsOfScreen(variants[i], reqs[r].screenIds[i],
                                        reqs[r].targetLayerName)

\* a response of two variants whose second version and second
\* annotations arrived before the first
C15_Witness ==
    \E r \in 1..Len(reqs) :
        /\ Succeeded(reqs[r])
        /\ Len(reqs[r].screenIds) = 2
        /\ IndexOf(reqs[r].arrivals, <<"version", 2>>)
              < IndexOf(reqs[r].arrivals, <<"version", 1>>)
        /\ IndexOf(reqs[r].arrivals, <<"annotations", 2>>)
              < IndexOf(reqs[r].arrivals, <<"annotations", 1>>)

\* the calls of the endpoint in the log, in order
CallsOf(calls, endpoint) == SelectSeq(calls, LAMBDA call : call[1] = endpoint)

\* the screen ids of the entries of the variant group of the screen that
\* have one, in the group's order
GroupScreenIds(id) ==
    LET group == ApiScreenVariant(Prop(Prop(Prop(ApiScreen(id), "variant"), "group"), "id").v)
        entries == SelectSeq(Prop(group, "variants").v,
                             LAMBDA entry : HasKey(entry, "screenId"))
    IN  [i \in 1..Len(entries) |-> Get(entries[i], "screenId").v]

\* C16: with includeVariants false getScreenData fetches and returns one
\* variant, the screen of the URL, also when that screen is in a variant
\* group, and fetches no variant group; with includeVariants true and a
\* screen in a variant group it returns one variant for each entry of the
\* group that has a screenId.
C16_IncludeVariantsSelectsScreens ==
    \A r \in 1..Len(reqs) :
        (Succeeded(reqs[r]) /\ reqs[r].tool = "get_screen") =>
            LET id == reqs[r].url.path[4]
                variants == Prop(ResultData(reqs[r]), "variants").v
                single == /\ Len(variants) = 1
                          /\ VariantIsOfScreen(variants[1], id, reqs[r].targetLayerName)
                          /\ CallsOf(reqs[r].fetches, "getScreenVariant") = <<>>
                          /\ CallsOf(reqs[r].fetches, "getLatestScreenVersion")
                                = << <<"getLatestScreenVersion", id>> >>
            IN  /\ ~reqs[r].includeVariants => single
                /\ (reqs[r].includeVariants /\ HasKey(ApiScreen(id), "variant")) =>
                      /\ Len(variants) = Len(GroupScreenIds(id))
                      /\ \A i \in 1..Len(variants) :
                            VariantIsOfScreen(variants[i], GroupScreenIds(id)[i],
                                              reqs[r].targetLayerName)

\* a screen of a variant group has been fetched alone
C16_Witness ==
    \E r \in 1..Len(reqs) :
        /\ Succeeded(reqs[r])
        /\ reqs[r].tool = "get_screen"
        /\ ~reqs[r].includeVariants
        /\ HasKey(ApiScreen(reqs[r].url.path[4]), "variant")
        /\ Len(Prop(ResultData(reqs[r]), "variants").v) = 1

Extraction(rq) == rq.tool \in {"get_screen", "get_component"}

\* the URL is one of the accepted links of the tool
ValidLink(rq) ==
    /\ rq.url.host = "app.zeplin.io"
    /\ \/ rq.tool = "get_screen" /\ Len(rq.url.path) >= 4
             /\ rq.url.path[1] = "project" /\ rq.url.path[3] = "screen"
       \/ rq.tool = "get_component" /\ Len(rq.url.path) >= 4
             /\ rq.url.path[1] = "styleguide" /\ rq.url.path[3] = "component"
       \/ rq.tool = "get_component" /\ Len(rq.url.path) >= 5
             /\ rq.url.path[1] = "project" /\ rq.url.path[3] = "styleguide"
             /\ rq.url.path[4] = "component"

\* C17: in every extraction that passes URL validation the reset of the
\* registry is the first thing that happens: it precedes the first API
\* call of the request and every per-variant sub-fetch, and no
\* registration of the request precedes it.
C17_ResetBeforeFetchAndRegister ==
    \A r \in 1..Len(reqs) :
        (Extraction(reqs[r]) /\ ValidLink(reqs[r])) =>
            /\ reqs[r].events # <<>>
            /\ reqs[r].events[1] = <<"reset">>
            /\ \A i \in 2..Len(reqs[r].events) : reqs[r].events[i] # <<"reset">>

\* the two version sub-fetches of a request are in flight, the registry
\* still held entries when the request came in, and it is empty now
C17_Witness ==
    \E r \in 1..Len(reqs) :
        /\ reqs[r].pc = "awaitVersions"
        /\ Cardinality(reqs[r].pending) = 2
        /\ reqs[r].keysAtStart # {}
        /\ DOMAIN assetRecords = {}
        /\ reqs[r].events[1] = <<"reset">>

(***************************************************************************)
(* SpecRace: the server admits a call while another is suspended at an     *)
(* await, as the protocol shell does with overlapping tool calls; the      *)
(* continuations of the two then interleave.                               *)
(***************************************************************************)
InFlight == {q \in 1..Len(reqs) : reqs[q].pc \notin {"done", "returned"}}

RaceScreenUrls ==
    { Url("app.zeplin.io", <<"project", "p", "screen", "s1">>),
      Url("app.zeplin.io", <<"project", "p", "screen", "s3">>) }

RaceComponentUrls ==
    { Url("app.zeplin.io", <<"styleguide", "sg", "component", "c1">>) }

\* getScreenData is called, at most one other call being in flight
GetScreenDataInterleaved(url, includeVariants) ==
    /\ Len(reqs) < MaxRequests
    /\ Cardinality(InFlight) <= 1
    /\ Serve(ScreenCall(url, includeVariants, ""))

\* getComponentData is called, at most one other call being in flight
GetComponentDataInterleaved(url) ==
    /\ Len(reqs) < MaxRequests
    /\ Cardinality(InFlight) <= 1
    /\ Serve(ComponentCall(url))

NextRace ==
    \/ \E url \in RaceScreenUrls, includeVariants \in BOOLEAN :
          GetScreenDataInterleaved(url, includeVariants)
    \/ \E url \in RaceComponentUrls : GetComponentDataInterleaved(url)
    \/ \E r \in 1..Len(reqs) : ScreenArrives(r)
    \/ \E r \in 1..Len(reqs) : VariantGroupArrives(r)
    \/ \E r \in 1..Len(reqs) : \E i \in 1..Len(reqs[r].screenIds) : VersionArrives(r, i)
    \/ \E r \in 1..Len(reqs) : \E i \in 1..Len(reqs[r].screenIds) : AnnotationsArrive(r, i)
    \/ \E r \in 1..Len(reqs) : TokensArrive(r)
    \/ \E r \in 1..Len(reqs) : ComponentArrives(r)
    \/ \E r \in 1..Len(reqs) : ComponentTokensArrive(r)
    \/ \E r \in 1..Len(reqs) : SectionsArrive(r)
    \/ \E r \in 1..Len(reqs) : SectionComponentsArrive(r)
    \/ \E r \in 1..Len(reqs) : FetchFails(r)

SpecRace == Init /\ [][NextRace]_vars

\* the position in the history of the last reset, 0 without one
LastReset ==
    LET resets == {i \in 1..Len(history) : history[i][2] = "reset"}
    IN  IF resets = {} THEN 0 ELSE CHOOSE i \in resets : \A j \in resets : j <= i

\* the positions of the registrations since the last reset
LiveRegistrations ==
    {i \in (LastReset + 1)..Len(history) : history[i][2] = "register"}

\* C18: extractions in flight at the same time race on the registry: it
\* holds the keys of every registration since the last reset, whichever
\* request made it, so when the resets of two interleaved extractions
\* both precede their registrations the registry holds, after both have
\* completed, the entries of both.
C18_RegistrySharedByInterleavedExtractions ==
    DOMAIN assetRecords = UNION {history[i][3] : i \in LiveRegistrations}

\* two extractions have both completed and the registry holds keys that
\* only the one registered and keys that only the other registered
C18_Witness ==
    \E i, j \in LiveRegistrations :
        /\ history[i][1] # history[j][1]
        /\ Succeeded(reqs[history[i][1]])
        /\ Succeeded(reqs[history[j][1]])
        /\ history[i][3] \ history[j][3] # {}
        /\ history[j][3] \ history[i][3] # {}
        /\ (history[i][3] \cup history[j][3]) \subseteq DOMAIN assetRecords

\* some object at any depth of node has opacity 1, blend_mode "normal" or
\* rotation 0
RECURSIVE HasDefaultAnywhere(_)
HasDefaultAnywhere(node) ==
    IF IsArray(node)
    THEN \E i \in 1..Len(node.v) : HasDefaultAnywhere(node.v[i])
    ELSE IF IsObject(node)
    THEN \E i \in 1..Len(node.v) :
            \/ /\ node.v[i][1] \in {"opacity", "blend_mode", "rotation"}
               /\ node.v[i][2] = SpecDefault(node.v[i][1])
            \/ HasDefaultAnywhere(node.v[i][2])
    ELSE FALSE

\* the layer trees of the data of a response: those of its variants, or
\* that of its single component
ResponseLayerTrees(data) ==
    IF HasKey(data, "variants")
    THEN {Prop(Get(data, "variants").v[i], "layers") :
             i \in 1..Len(Get(data, "variants").v)}
    ELSE IF HasKey(data, "component")
    THEN {Prop(Prop(Get(data, "component"), "latestVersion"), "layers")}
    ELSE {}

\* C19: every layer tree of a successful extraction response, of a screen
\* variant, of a component variant or of the single component, is
\* normalised: no id, created, creator or thumbnails field and no
\* opacity 1, blend_mode "normal" or rotation 0 at any depth.
C19_ResponseLayerTreesNormalized ==
    \A r \in 1..Len(reqs) :
        (Succeeded(reqs[r]) /\ Extraction(reqs[r])) =>
            \A tree \in ResponseLayerTrees(ResultData(reqs[r])) :
                /\ ~HasKeyAnywhere(tree, NoiseFields)
                /\ ~HasDefaultAnywhere(tree)

\* the assets of the normalised screen versions of the request, in the
\* order of the variants
RECURSIVE AssetsOf(_)
AssetsOf(versions) ==
    IF versions = <<>> THEN <<>>
    ELSE (IF IsArray(Prop(Head(versions), "assets"))
          THEN Prop(Head(versions), "assets").v ELSE <<>>)
         \o AssetsOf(Tail(versions))

\* the content entries of the asset, none when it has no contents
ContentsOf(asset) ==
    IF IsArray(Prop(asset, "contents")) THEN Prop(asset, "contents").v ELSE <<>>

\* the assets of the sequence that have the key and contents
WithKey(assets, key) ==
    SelectSeq(assets, LAMBDA a : Prop(a, "layerSourceId") = Str(key)
                                    /\ IsArray(Prop(a, "contents")))

\* the url of the first content entry of the format in the asset
UrlIn(asset, format) ==
    LET entries == SelectSeq(ContentsOf(asset), LAMBDA c : Prop(c, "format") = format)
    IN  IF entries = <<>> THEN Undefined ELSE Prop(Head(entries), "url")

NoVariantCarriesAssets(rq) ==
    \A i \in 1..Len(Prop(ResultData(rq), "variants").v) :
        ~HasKey(Prop(ResultData(rq), "variants").v[i], "assets")

\* C20 as stated: after a successful getScreenData no variant of the
\* response has an assets field, and for every fetched asset with a
\* layerSourceId and a content entry of format f, getAssetUrl of that key
\* and f is defined and is the url of an entry of format f of a fetched
\* asset with that key.
C20_EveryFetchedFormatHasUrl ==
    \A r \in 1..Len(reqs) :
        (Succeeded(reqs[r]) /\ reqs[r].tool = "get_screen") =>
            LET assets == AssetsOf(reqs[r].versions)
            IN  /\ NoVariantCarriesAssets(reqs[r])
                /\ \A a \in 1..Len(assets) :
                      Truthy(Prop(assets[a], "layerSourceId")) =>
                          \A c \in 1..Len(ContentsOf(assets[a])) :
                              LET key == Prop(assets[a], "layerSourceId").v
                                  format == Prop(ContentsOf(assets[a])[c], "format")
                                  url == getAssetUrl(assetRecords, key, format.v)
                              IN  /\ url # Undefined
                                  /\ \E b \in 1..Len(assets) :
                                        /\ Prop(assets[b], "layerSourceId") = Str(key)
                                        /\ \E e \in 1..Len(ContentsOf(assets[b])) :
                                              /\ Prop(ContentsOf(assets[b])[e], "format")
                                                    = format
                                              /\ Prop(ContentsOf(assets[b])[e], "url") = url

\* C20, amended: after a successful getScreenData no variant of the
\* response has an assets field, and for every fetched asset with a
\* layerSourceId and a content entry of format f, getAssetUrl of that key
\* and f is the url of the first entry of format f of the last fetched
\* asset with that key, and undefined when that asset has no such entry.
C20_FetchedFormatHasUrlOfLastAsset ==
    \A r \in 1..Len(reqs) :
        (Succeeded(reqs[r]) /\ reqs[r].tool = "get_screen") =>
            LET assets == AssetsOf(reqs[r].versions)
            IN  /\ NoVariantCarriesAssets(reqs[r])
                /\ \A a \in 1..Len(assets) :
                      Truthy(Prop(assets[a], "layerSourceId")) =>
                          \A c \in 1..Len(ContentsOf(assets[a])) :
                              LET key == Prop(assets[a], "layerSourceId").v
                                  format == Prop(ContentsOf(assets[a])[c], "format")
                                  same == WithKey(assets, key)
                              IN  getAssetUrl(assetRecords, key, format.v)
                                     = UrlIn(same[Len(same)], format)

\* two variants have an asset under the same key; the first has an svg
\* entry, the second has none, and no svg url is found under the key
C20_Witness ==
    \E r \in 1..Len(reqs) :
        /\ Succeeded(reqs[r])
        /\ reqs[r].tool = "get_screen"
        /\ Len(reqs[r].versions) = 2
        /\ LET assets == AssetsOf(reqs[r].versions)
               same == WithKey(assets, "k1")
           IN  /\ Len(same) = 2
               /\ UrlIn(same[1], Str("svg")) # Undefined
               /\ UrlIn(same[2], Str("svg")) = Undefined
               /\ getAssetUrl(assetRecords, "k1", "svg") = Undefined
               /\ getAssetUrl(assetRecords, "k1", "png") = UrlIn(same[2], Str("png"))

(***************************************************************************)
(* Further properties of the normaliser (SpecNorm).                        *)
(***************************************************************************)
\* no field of node, at any depth, holds an empty array and no array of
\* node has an empty array as element
RECURSIVE NoEmptySequenceInside(_)
NoEmptySequenceInside(node) ==
    IF IsArray(node)
    THEN \A i \in 1..Len(node.v) :
            ~IsEmptyArray(node.v[i]) /\ NoEmptySequenceInside(node.v[i])
    ELSE IF IsObject(node)
    THEN \A i \in 1..Len(node.v) :
            ~IsEmptyArray(node.v[i][2]) /\ NoEmptySequenceInside(node.v[i][2])
    ELSE TRUE

\* the field is passed over by the noise-field or default-value rule
PassedOver(key, value) ==
    \/ key \in NoiseFields
    \/ key \in {"opacity", "blend_mode", "rotation"} /\ SpecDefault(key) = value

\* every object of in that no rule on its own field name or density
\* removes has an object at the same place of res: the objects of an
\* array are the objects of its result in the same order, the object under
\* a field is an object under the same field of the result
RECURSIVE RecordsStay(_, _)
RecordsStayInItems(items, res) ==
    LET inObjs == SelectSeq(items, IsObject)
        outObjs == IF IsArray(res) THEN SelectSeq(res.v, IsObject) ELSE <<>>
        inArrs == SelectSeq(items, IsArray)
        outArrs == IF IsArray(res) THEN SelectSeq(res.v, IsArray) ELSE <<>>
    IN  /\ Len(inObjs) = Len(outObjs)
        /\ \A i \in 1..Len(inObjs) : RecordsStay(inObjs[i], outObjs[i])
        /\ Len(outArrs) <= Len(inArrs)

RecordsStay(in, res) ==
    IF IsArray(in) THEN IsArray(res) /\ RecordsStayInItems(in.v, res)
    ELSE IF IsObject(in)
    THEN /\ IsObject(res)
         /\ \A i \in 1..Len(in.v) :
               LET key == in.v[i][1]
                   value == in.v[i][2]
               IN  PassedOver(key, value)
                   \/ IF IsObject(value)
                      THEN HasKey(res, key) /\ RecordsStay(value, Get(res, key))
                      ELSE IF IsArray(value)
                      THEN LET items == IF key = "contents"
                                        THEN SelectSeq(value.v, KeepContentItem)
                                        ELSE value.v
                           IN  RecordsStayInItems(items,
                                   IF HasKey(res, key) THEN Get(res, key) ELSE Null)
                      ELSE TRUE
    ELSE res = in

\* C21: only empty arrays are left out by preProcess: in the result no
\* field at any depth holds an empty array and no array has an empty
\* array as element (a `contents` whose items were all filtered out is
\* omitted), while an object that lost all its fields stays where it was
\* as an empty object, under its field or in its array.
C21_OnlyEmptySequencesElided ==
    Normalized =>
        /\ NoEmptySequenceInside(out)
        /\ RecordsStay(IF stage = "normalized" THEN doc ELSE prev, out)

\* an object under `layers` whose only field is a `contents` array that
\* is filtered out whole: the object stays, empty
C21_Witness ==
    /\ stage = "normalized"
    /\ doc = Field("layers",
                  Field("contents",
                        Arr(<<Obj(<< <<"density", Num("2")>>,
                                     <<"format", Str("png")>> >>)>>)))
    /\ out = Field("layers", Obj(<<>>))

(***************************************************************************)
(* SpecFrame: one call of the normaliser, the locator or a pruner on an    *)
(* argument that lies in the heap.                                         *)
(***************************************************************************)
InitFrame ==
    /\ \/ doc \in Documents /\ stage = "input" /\ PruneIdle
               /\ heap = Store(<<>>, doc)[1] /\ arg = Store(<<>>, doc)[2]
       \/ layers \in {Arr(f) : f \in Forests} \cup {Null}
               /\ targetLayerName \in TargetNames
               /\ located = NotFound /\ pruned = Null /\ prunedAgain = Null
               /\ pstage = "input"
               /\ doc = Null /\ stage = "idle"
               /\ heap = Store(<<>>, layers)[1] /\ arg = Store(<<>>, layers)[2]
    /\ out = Null
    /\ prev = Null
    /\ ret = Null
    /\ SysIdle

\* preProcess(data)
PreProcessOnHeap ==
    /\ stage = "input"
    /\ LET r == preProcessOnHeap(heap, arg)
       IN  heap' = r[1] /\ ret' = r[2] /\ out' = Load(r[1], r[2])
    /\ prev' = out
    /\ stage' = "normalized"
    /\ UNCHANGED <<doc, arg, pruneVars, sysVars>>

\* findTargetLayer(layers, targetLayerName)
LocateOnHeap ==
    /\ pstage = "input"
    /\ LET r == findTargetLayerOnHeap(heap, arg, targetLayerName, Null, <<>>)
       IN  /\ ret' = r.layer
           /\ located' = [found |-> r.found,
                          layer |-> Load(heap, r.layer),
                          parentLayer |-> Load(heap, r.parentLayer),
                          path |-> [i \in 1..Len(r.path) |-> Load(heap, r.path[i])]]
    /\ pstage' = "located"
    /\ UNCHANGED <<heap, arg, layers, targetLayerName, prunedAgain, pruned, normVars, sysVars>>

\* pruneLayersForTargetLayer(layers, targetLayerName)
PruneOnHeap ==
    /\ pstage = "input"
    /\ LET r == pruneLayersForTargetLayerOnHeap(heap, arg, targetLayerName)
       IN  heap' = r[1] /\ ret' = r[2] /\ pruned' = Load(r[1], r[2])
    /\ pstage' = "pruned"
    /\ UNCHANGED <<arg, layers, targetLayerName, prunedAgain, located, normVars, sysVars>>

\* pruneLayersForComponent(layers, targetComponentName)
PruneForComponentOnHeap ==
    /\ pstage = "input"
    /\ LET r == pruneLayersForComponentOnHeap(heap, arg, targetLayerName)
       IN  heap' = r[1] /\ ret' = r[2] /\ pruned' = Load(r[1], r[2])
    /\ pstage' = "prunedForComponent"
    /\ UNCHANGED <<arg, layers, targetLayerName, prunedAgain, located, normVars, sysVars>>

NextFrame ==
    \/ PreProcessOnHeap
    \/ LocateOnHeap
    \/ PruneOnHeap
    \/ PruneForComponentOnHeap

SpecFrame == InitFrame /\ [][NextFrame]_vars

\* the argument of the call, as a document node
Argument == IF stage = "idle" THEN layers ELSE doc

\* the heap as it was when the call was made
HeapAtCall == Store(<<>>, Argument)[1]

Called == stage = "normalized" \/ pstage \in {"located", "pruned", "prunedForComponent"}

\* C22: preProcess, findTargetLayer and the pruners leave their argument
\* as it was: after the call every object and array that was reachable
\* from the argument has the fields, elements and values it had before
\* (the parent of the target still has all its layers), and the value
\* returned is the one the function has on document nodes.
C22_ArgumentsUnchanged ==
    Called =>
        /\ Len(heap) >= Len(HeapAtCall)
        /\ \A a \in 1..Len(HeapAtCall) : heap[a] = HeapAtCall[a]
        /\ Load(heap, arg) = Argument
        /\ stage = "normalized" => out = preProcess(doc)
        /\ pstage = "located" =>
              located = findTargetLayer(layers, targetLayerName, Null, <<>>)
        /\ pstage = "pruned" =>
              pruned = pruneLayersForTargetLayer(layers, targetLayerName)
        /\ pstage = "prunedForComponent" =>
              pruned = pruneLayersForComponent(layers, targetLayerName)

\* the earlier pruner has returned a copy of the parent that holds the
\* target alone, and the parent in the argument has more layers than one
C22_Witness ==
    /\ pstage = "prunedForComponent"
    /\ FirstMatch.found
    /\ FirstMatch.parentLayer # Null
    /\ Len(Get(FirstMatch.parentLayer, "layers").v) > 1
    /\ Len(Get(pruned.v[1], "layers").v) = 1
    /\ Len(heap) > Len(HeapAtCall)
    /\ \E a \in 1..Len(HeapAtCall) :
          /\ Load(heap, Ref(a)) = FirstMatch.parentLayer
          /\ heap[ret.v].v[1] # Ref(a)

(***************************************************************************)
(* Further properties of the locator and the pruner (SpecPrune).           *)
(***************************************************************************)
\* the elements of an array node, as a set
ElementsOf(node) == {node.v[i] : i \in 1..Len(node.v)}

\* C23: when findTargetLayer returns found, path is the chain from a
\* top-level layer to the match: its first element is an element of the
\* layers searched, the layers of each element hold the next one, its
\* last element is the layer returned, the one before it is the
\* parentLayer returned, and parentLayer is null exactly when the path
\* has one element.
C23_PathIsChainFromRoot ==
    (pstage = "located" /\ located.found) =>
        LET path == located.path
            n == Len(path)
        IN  /\ n >= 1
            /\ path[1] \in ElementsOf(layers)
            /\ \A i \in 1..(n - 1) :
                  HasLayers(path[i]) /\ path[i + 1] \in ElementsOf(Get(path[i], "layers"))
            /\ path[n] = located.layer
            /\ n > 1 => located.parentLayer = path[n - 1]
            /\ located.parentLayer = Null <=> n = 1

\* a match found two levels below the top, after a top-level layer that
\* does not hold it
C23_Witness ==
    /\ pstage = "located"
    /\ located.found
    /\ Len(located.path) = 3
    /\ located.parentLayer = located.path[2]
    /\ located.path[1] # layers.v[1]

\* C24: when the first match of a non-empty targetLayerName is one of the
\* layers searched, pruneLayersForTargetLayer returns an array of one
\* element, that layer as it is in the input with all its fields and its
\* subtree, and none of the other layers searched.
C24_TopLevelMatchReturnedAlone ==
    (/\ pstage = "pruned"
     /\ targetLayerName # ""
     /\ FirstMatch.found
     /\ FirstMatch.parentLayer = Null)
    => /\ pruned = Arr(<<FirstMatch.layer>>)
       /\ FirstMatch.layer \in ElementsOf(layers)
       /\ \E i \in 1..Len(layers.v) :
             /\ pruned.v[1] = layers.v[i]
             /\ \A j \in 1..(i - 1) : ~MatchesTarget(layers.v[j], targetLayerName)

\* the second of several top-level layers is the first match, it has
\* children, and it is returned alone
C24_Witness ==
    /\ pstage = "pruned"
    /\ targetLayerName # ""
    /\ FirstMatch.found
    /\ FirstMatch.parentLayer = Null
    /\ Len(layers.v) > 1
    /\ FirstMatch.layer = layers.v[2]
    /\ HasLayers(FirstMatch.layer)
    /\ pruned = Arr(<<layers.v[2]>>)

RECURSIVE ComponentAssetsOf(_)
ComponentAssetsOf(components) ==
    IF components = <<>> THEN <<>>
    ELSE LET assets == Prop(Prop(Head(components), "latestVersion"), "assets")
         IN  (IF IsArray(assets) THEN assets.v ELSE <<>>)
                 \o ComponentAssetsOf(Tail(components))

\* the assets the extraction gave to the registry, in the order it did,
\* those that registerAsset does not pass over
RegisteredAssets(rq) ==
    LET given ==
            IF rq.tool = "get_screen" THEN AssetsOf(rq.versions)
            ELSE ComponentAssetsOf(<<rq.component>>)
                    \o (IF Truthy(rq.section)
                        THEN ComponentAssetsOf(
                                 ApiSectionComponents(rq.styleguideId,
                                                      Prop(rq.section, "id").v).v)
                        ELSE <<>>)
    IN  SelectSeq(given, LAMBDA a : Truthy(Prop(a, "layerSourceId"))
                                       /\ Truthy(Prop(a, "contents")))

\* the formats and urls of the asset's content entries
FormatsAndUrls(asset) ==
    [i \in 1..Len(ContentsOf(asset)) |->
        [format |-> Prop(ContentsOf(asset)[i], "format"),
         url |-> Prop(ContentsOf(asset)[i], "url")]]

\* C26: the registry holds one record for each layerSourceId registered
\* since the last reset and none else, the contents of the record are
\* those of the asset registered last under the key, getAssetUrl gives
\* the url of that asset (of the last variant in request order, when
\* several variants have an asset under the key), and an asset without
\* layerSourceId is not stored.
C26_LastRegisteredAssetWins ==
    \A r \in 1..Len(reqs) :
        (Succeeded(reqs[r]) /\ Extraction(reqs[r])) =>
            LET assets == RegisteredAssets(reqs[r])
            IN  /\ DOMAIN assetRecords =
                      {Prop(assets[i], "layerSourceId").v : i \in 1..Len(assets)}
                /\ \A key \in DOMAIN assetRecords :
                      LET same == WithKey(assets, key)
                          last == same[Len(same)]
                      IN  /\ assetRecords[key].contents = FormatsAndUrls(last)
                          /\ \A format \in AssetTypes :
                                getAssetUrl(assetRecords, key, format)
                                    = UrlIn(last, Str(format))

\* two variants of one extraction have an asset under k1, and the record
\* and the png url under k1 are those of the second variant
C26_Witness ==
    \E r \in 1..Len(reqs) :
        /\ Succeeded(reqs[r])
        /\ reqs[r].tool = "get_screen"
        /\ Len(reqs[r].versions) = 2
        /\ Len(WithKey(AssetsOf(<<reqs[r].versions[1]>>), "k1")) = 1
        /\ Len(WithKey(AssetsOf(<<reqs[r].versions[2]>>), "k1")) = 1
        /\ assetRecords["k1"].contents
              = FormatsAndUrls(WithKey(AssetsOf(<<reqs[r].versions[2]>>), "k1")[1])
        /\ assetRecords["k1"].contents
              # FormatsAndUrls(WithKey(AssetsOf(<<reqs[r].versions[1]>>), "k1")[1])
        /\ getAssetUrl(assetRecords, "k1", "png") = Str("h1.png")

\* the step admits an extraction whose URL is none of the tool's links
AdmitsInvalidLink ==
    /\ Len(reqs') = Len(reqs) + 1
    /\ Extraction(reqs'[Len(reqs')])
    /\ ~ValidLink(reqs'[Len(reqs')])

\* C27: an extraction whose URL matches none of the accepted patterns
\* returns an error result at once, calls the API not at all and neither
\* resets nor registers: the registry after the call is the registry
\* before it, so what an earlier extraction registered can still be
\* looked up.
C27_InvalidLinkLeavesRegistry ==
    [][AdmitsInvalidLink =>
          LET rq == reqs'[Len(reqs')]
          IN  /\ assetRecords' = assetRecords
              /\ history' = history
              /\ rq.pc = "done"
              /\ "isError" \in DOMAIN rq.result /\ rq.result.isError
              /\ rq.fetches = <<>>
              /\ rq.events = <<>>
              /\ ~rq.didReset]_vars

\* an extraction with an invalid link has returned its error and the
\* svg url of k1, registered by the extraction before it, is still found
C27_Witness ==
    /\ Len(reqs) = 2
    /\ Extraction(reqs[2])
    /\ ~ValidLink(reqs[2])
    /\ reqs[2].pc = "done"
    /\ reqs[2].result.isError
    /\ reqs[2].keysAtStart = DOMAIN assetRecords
    /\ getAssetUrl(assetRecords, "k1", "svg") = Str("u1.svg")

\* the entries of the variant group of the screen
GroupEntries(id) ==
    Prop(ApiScreenVariant(Prop(Prop(Prop(ApiScreen(id), "variant"), "group"), "id").v),
         "variants").v

\* C28: for a screen of a variant group fetched with includeVariants,
\* screenIds and variantNames have the same length and the name of
\* variant i of the response is the value of the entry of the group
\* whose screenId gave the layers of variant i, also when an entry of the
\* group has no screenId or no value.
C28_VariantNamesAligned ==
    \A r \in 1..Len(reqs) :
        (/\ Succeeded(reqs[r])
         /\ reqs[r].tool = "get_screen"
         /\ reqs[r].includeVariants
         /\ HasKey(ApiScreen(reqs[r].url.path[4]), "variant")) =>
            LET entries == GroupEntries(reqs[r].url.path[4])
                variants == Prop(ResultData(reqs[r]), "variants").v
            IN  /\ Len(reqs[r].screenIds) = Len(reqs[r].variantNames)
                /\ \A i \in 1..Len(variants) :
                      \E e \in 1..Len(entries) :
                          /\ Prop(entries[e], "screenId") = Str(reqs[r].screenIds[i])
                          /\ Prop(entries[e], "value") = Prop(variants[i], "name")
                          /\ VariantIsOfScreen(variants[i], reqs[r].screenIds[i],
                                               reqs[r].targetLayerName)

\* C29: removing the metadata and normalising commute: preProcess of
\* removeMetadata(d) is removeMetadata of preProcess(d) for every document
\* d, and preProcess leaves that result as it is.
C29_MetadataRemovalCommutes ==
    /\ stage = "strippedNormalized" => out = removeMetadata(preProcess(doc))
    /\ stage = "tokensNormalized" => out = prev /\ prev = preProcessDesignTokens(doc)

\* a document with metadata beside fields that the normaliser drops, the
\* metadata removed first and the result normalised
C29_Witness ==
    /\ stage = "strippedNormalized"
    /\ HasKeyAnywhere(doc, {"metadata"})
    /\ HasKeyAnywhere(doc, {"rotation"})
    /\ prev # doc
    /\ out # prev
    /\ ~HasKeyAnywhere(out, {"metadata", "rotation"})

\* the extraction passed URL validation and returned an error result
FailedExtraction(rq) ==
    /\ Extraction(rq)
    /\ ValidLink(rq)
    /\ rq.pc = "done"
    /\ "isError" \in DOMAIN rq.result

\* C30: when getScreenData or getComponentData returns an error result
\* after passing URL validation the registry is empty, whichever call of
\* the API failed.
C30_FailedExtractionLeavesNoEntries ==
    \A r \in 1..Len(reqs) :
        FailedExtraction(reqs[r]) => DOMAIN assetRecords = {}

====
